---- MODULE Spec2Model ----
(***************************************************************************)
(* A model of the document-verification pipeline of strands-verifier:      *)
(* DocumentVerificationOrchestrator.verify_document (src/src/orchestrator  *)
(* .py) and the four stage invokers under src/src/agents/.                 *)
(*                                                                         *)
(* Python values are tagged records (one field name per type, so values of *)
(* different types compare unequal instead of failing to compare):         *)
(*   None  [t |-> "null"]          bool  [t |-> "bool",  b |-> TRUE]       *)
(*   int   [t |-> "int", n |-> 85] float [t |-> "float", f |-> <float>]    *)
(*   str   [t |-> "str", s |-> "x"]                                        *)
(*   list  [t |-> "list", items |-> <<v1, ..>>]                            *)
(*   dict  [t |-> "dict", m |-> << <<"key", v>>, .. >>]  (insertion order) *)
(* A JSON text (what the invokers return, what a model answers in free     *)
(* text, what save_json_result writes) is a sequence of tokens.            *)
(***************************************************************************)
EXTENDS Integers, Sequences, FiniteSets, TLC

VARIABLES
    target_dir,       \* the *.txt files of config.target_dir, in glob order
    source_dir,       \* the *.txt files of config.source_dir, in glob order
    files,            \* config.results_dir: a set of [path, data] records
    pc,               \* position of verify_document
    session_id,       \* the session_id argument, then the run's session id
    target_file,      \* the name load_target_document returned
    source_documents, \* the keys of the dict load_source_documents returned
    claims,           \* claims_data.get('claims', [])
    i,                \* index (1-based) of the claim being processed
    evidence_result,  \* the string Stage 2 returned for the current claim
    judgment_data,    \* json.loads of the string Stage 3 returned
    verified_claims,  \* the list verified_claims
    result_data,      \* the report assembled by the aggregation step
    exc,              \* str(e) of the exception the run's except clause caught
    ret,              \* the path verify_document returned
    log,              \* history: the stage calls made, in order
    last,             \* history: the latest stage call and what it returned
    fnIn,             \* SpecJudgment: the service calls of one judgment
    fnOut             \* SpecJudgment: what the code has made of them

envVars == <<target_dir, source_dir>>

runVars == <<files, pc, session_id, target_file, source_documents, claims, i,
             evidence_result, judgment_data, verified_claims, result_data,
             exc, ret, log, last>>

fnVars == <<fnIn, fnOut>>

vars == <<envVars, runVars, fnVars>>

-----------------------------------------------------------------------------
(* Python values *)

PyNone == [t |-> "null"]
PyBool(b) == [t |-> "bool", b |-> b]
PyInt(n) == [t |-> "int", n |-> n]
PyFloat(f) == [t |-> "float", f |-> f]
PyStr(s) == [t |-> "str", s |-> s]
PyList(items) == [t |-> "list", items |-> items]
PyDict(m) == [t |-> "dict", m |-> m]

\* A float: a finite decimal sign * num / den, an infinity or a NaN.
Fin(sign, num, den) == [k |-> "fin", sign |-> sign, num |-> num, den |-> den]
Inf(sign) == [k |-> "inf", sign |-> sign, num |-> 0, den |-> 1]
NaN == [k |-> "nan", sign |-> 1, num |-> 0, den |-> 1]

\* key in d
DictHas(d, key) == \E j \in 1..Len(d.m) : d.m[j][1] = key

\* d.get(key, default)
DictGet(d, key, default) ==
    IF DictHas(d, key)
    THEN d.m[CHOOSE j \in 1..Len(d.m) : d.m[j][1] = key][2]
    ELSE default

\* d[key] = val : an existing key keeps its place, a new key goes last.
DictSet(d, key, val) ==
    IF DictHas(d, key)
    THEN PyDict([j \in 1..Len(d.m) |->
                    IF d.m[j][1] = key THEN <<key, val>> ELSE d.m[j]])
    ELSE PyDict(Append(d.m, <<key, val>>))

RECURSIVE DictUpdate(_, _)
\* {**d, **e}
DictUpdate(d, e) ==
    IF Len(e.m) = 0 THEN d
    ELSE DictUpdate(DictSet(d, e.m[1][1], e.m[1][2]), PyDict(Tail(e.m)))

\* The keys a dict can be looked up by: dict and list are unhashable.
Hashable(v) == v.t \notin {"dict", "list"}

-----------------------------------------------------------------------------
(* JSON texts: json.dumps and json.loads *)

Tok(k) == [k |-> k]
Lit(v) == [k |-> "lit", v |-> v]   \* a scalar literal: "x", 85, 7.5, true, null
Prose == [k |-> "prose"]           \* a word of free text, no JSON at all

IsScalar(v) == v.t \in {"null", "bool", "int", "float", "str"}

RECURSIVE JsonDumps(_), DumpItems(_), DumpMembers(_)
\* json.dumps(v, ensure_ascii=False)
JsonDumps(v) ==
    CASE v.t = "list" -> <<Tok("[")>> \o DumpItems(v.items) \o <<Tok("]")>>
      [] v.t = "dict" -> <<Tok("{")>> \o DumpMembers(v.m) \o <<Tok("}")>>
      [] OTHER -> <<Lit(v)>>

DumpItems(items) ==
    IF Len(items) = 0 THEN <<>>
    ELSE IF Len(items) = 1 THEN JsonDumps(items[1])
    ELSE JsonDumps(items[1]) \o <<Tok(",")>> \o DumpItems(Tail(items))

DumpMembers(m) ==
    IF Len(m) = 0 THEN <<>>
    ELSE LET one == <<Lit(PyStr(m[1][1])), Tok(":")>> \o JsonDumps(m[1][2])
         IN  IF Len(m) = 1 THEN one
             ELSE one \o <<Tok(",")>> \o DumpMembers(Tail(m))

ParseFail == [ok |-> FALSE, v |-> PyNone, next |-> 0]
ParseOk(v, next) == [ok |-> TRUE, v |-> v, next |-> next]
IsTok(toks, j, k) == j <= Len(toks) /\ toks[j].k = k

RECURSIVE ParseValue(_, _), ParseItems(_, _, _), ParseMembers(_, _, _)
\* The JSON value that starts at token j.
ParseValue(toks, j) ==
    IF j > Len(toks) THEN ParseFail
    ELSE CASE toks[j].k = "lit" -> ParseOk(toks[j].v, j + 1)
           [] toks[j].k = "[" ->
                IF IsTok(toks, j + 1, "]") THEN ParseOk(PyList(<<>>), j + 2)
                ELSE ParseItems(toks, j + 1, <<>>)
           [] toks[j].k = "{" ->
                IF IsTok(toks, j + 1, "}") THEN ParseOk(PyDict(<<>>), j + 2)
                ELSE ParseMembers(toks, j + 1, PyDict(<<>>))
           [] OTHER -> ParseFail

ParseItems(toks, j, acc) ==
    LET r == ParseValue(toks, j)
    IN  IF ~r.ok THEN ParseFail
        ELSE IF IsTok(toks, r.next, ",")
             THEN ParseItems(toks, r.next + 1, Append(acc, r.v))
        ELSE IF IsTok(toks, r.next, "]")
             THEN ParseOk(PyList(Append(acc, r.v)), r.next + 1)
        ELSE ParseFail

ParseMembers(toks, j, acc) ==
    IF ~(IsTok(toks, j, "lit") /\ toks[j].v.t = "str" /\ IsTok(toks, j + 1, ":"))
    THEN ParseFail
    ELSE LET r == ParseValue(toks, j + 2)
         IN  IF ~r.ok THEN ParseFail
             ELSE LET d == DictSet(acc, toks[j].v.s, r.v)
                  IN  IF IsTok(toks, r.next, ",")
                      THEN ParseMembers(toks, r.next + 1, d)
                      ELSE IF IsTok(toks, r.next, "}")
                      THEN ParseOk(d, r.next + 1)
                      ELSE ParseFail

\* json.loads(toks): ok = FALSE stands for json.JSONDecodeError.
JsonLoads(toks) ==
    LET r == ParseValue(toks, 1)
    IN  IF r.ok /\ r.next = Len(toks) + 1
        THEN [ok |-> TRUE, v |-> r.v]
        ELSE [ok |-> FALSE, v |-> PyNone]

-----------------------------------------------------------------------------
(* float(str) and int(number), as lines 301-309 of orchestrator.py use them *)

\* The characters of the strings whose characters the model reads: TLA+
\* strings are atoms.  Any other string is one character that is no part of
\* a number.
Chars(s) ==
    CASE s = "" -> <<>>
      [] s = "72" -> <<"7", "2">>
      [] s = "85" -> <<"8", "5">>
      [] s = "150" -> <<"1", "5", "0">>
      [] s = "-3" -> <<"-", "3">>
      [] s = "+7" -> <<"+", "7">>
      [] s = "72.9" -> <<"7", "2", ".", "9">>
      [] s = "-0.5" -> <<"-", "0", ".", "5">>
      [] s = ".5" -> <<".", "5">>
      [] s = "7." -> <<"7", ".">>
      [] s = "." -> <<".">>
      [] s = " 72 " -> <<" ", "7", "2", " ">>
      [] s = "7 2" -> <<"7", " ", "2">>
      [] s = "1e2" -> <<"1", "e", "2">>
      [] s = "25E-1" -> <<"2", "5", "E", "-", "1">>
      [] s = "1e" -> <<"1", "e">>
      [] s = "1e999" -> <<"1", "e", "9", "9", "9">>
      [] s = "0e999" -> <<"0", "e", "9", "9", "9">>
      [] s = "inf" -> <<"i", "n", "f">>
      [] s = "-Infinity" -> <<"-", "I", "n", "f", "i", "n", "i", "t", "y">>
      [] s = "nan" -> <<"n", "a", "n">>
      [] s = "abc" -> <<"a", "b", "c">>
      [] s = "72%" -> <<"7", "2", "%">>
      [] OTHER -> <<s>>

DigitChars == <<"0", "1", "2", "3", "4", "5", "6", "7", "8", "9">>
IsDigit(c) == \E d \in 1..10 : DigitChars[d] = c
DigitVal(c) == (CHOOSE d \in 1..10 : DigitChars[d] = c) - 1

Lower(c) ==
    CASE c = "I" -> "i" [] c = "N" -> "n" [] c = "F" -> "f" [] c = "A" -> "a"
      [] c = "T" -> "t" [] c = "Y" -> "y" [] c = "E" -> "e" [] OTHER -> c

RECURSIVE Strip(_)
\* str.strip() as float() applies it
Strip(cs) ==
    IF Len(cs) > 0 /\ cs[1] = " " THEN Strip(Tail(cs))
    ELSE IF Len(cs) > 0 /\ cs[Len(cs)] = " " THEN Strip(SubSeq(cs, 1, Len(cs) - 1))
    ELSE cs

RECURSIVE SkipDigits(_, _)
\* the first position from j on that holds no digit
SkipDigits(cs, j) ==
    IF j <= Len(cs) /\ IsDigit(cs[j]) THEN SkipDigits(cs, j + 1) ELSE j

RECURSIVE NumOf(_, _, _)
\* the number written by the digits cs[a..b-1], skipping a "."
NumOf(cs, a, b) ==
    IF b <= a THEN 0
    ELSE IF cs[b - 1] = "." THEN NumOf(cs, a, b - 1)
    ELSE NumOf(cs, a, b - 1) * 10 + DigitVal(cs[b - 1])

RECURSIVE Pow10(_)
Pow10(n) == IF n = 0 THEN 1 ELSE 10 * Pow10(n - 1)

FloatFail == [ok |-> FALSE, f |-> NaN]
FloatOk(f) == [ok |-> TRUE, f |-> f]

\* sign * num / den * 10^e as a float; 308 is the largest decimal exponent
\* of a finite double.
Scaled(sign, num, den, e) ==
    IF num = 0 THEN Fin(sign, 0, 1)
    ELSE IF e > 308 THEN Inf(sign)
    ELSE IF e >= 0 THEN Fin(sign, num * Pow10(e), den)
    ELSE Fin(sign, num, den * Pow10(0 - e))

\* The digits of cs[1..p2-1] with nFrac of them after the point, times
\* 10^e.
FloatValue(sign, cs, p2, nFrac, e) ==
    FloatOk(Scaled(sign, NumOf(cs, 1, p2), Pow10(nFrac), e))

\* The exponent's digits are cs[p3..p4-1] and must end the string.
FloatExpDigits(sign, cs, p2, nFrac, esign, p3, p4) ==
    IF p4 = p3 \/ p4 # Len(cs) + 1 THEN FloatFail
    ELSE FloatValue(sign, cs, p2, nFrac, esign * NumOf(cs, p3, p4))

\* [ ("e" | "E") [sign] digits ] from position p2 on
FloatExponent(sign, cs, nInt, nFrac, p2) ==
    IF nInt + nFrac = 0 THEN FloatFail
    ELSE IF p2 = Len(cs) + 1 THEN FloatValue(sign, cs, p2, nFrac, 0)
    ELSE IF Lower(cs[p2]) # "e" THEN FloatFail
    ELSE IF p2 + 1 <= Len(cs) /\ cs[p2 + 1] \in {"+", "-"}
    THEN FloatExpDigits(sign, cs, p2, nFrac,
                        IF cs[p2 + 1] = "-" THEN 0 - 1 ELSE 1,
                        p2 + 2, SkipDigits(cs, p2 + 2))
    ELSE FloatExpDigits(sign, cs, p2, nFrac, 1, p2 + 1, SkipDigits(cs, p2 + 1))

\* digits [ "." digits ] | "." digits ; the integer digits end before p1
FloatMantissa(sign, cs, p1) ==
    IF p1 <= Len(cs) /\ cs[p1] = "."
    THEN FloatExponent(sign, cs, p1 - 1, SkipDigits(cs, p1 + 1) - p1 - 1,
                       SkipDigits(cs, p1 + 1))
    ELSE FloatExponent(sign, cs, p1 - 1, 0, p1)

\* "inf", "infinity", "nan" in any case, or a decimal number
FloatUnsigned(sign, cs) ==
    LET low == [j \in 1..Len(cs) |-> Lower(cs[j])]
    IN  IF low \in {<<"i", "n", "f">>, <<"i", "n", "f", "i", "n", "i", "t", "y">>}
        THEN FloatOk(Inf(sign))
        ELSE IF low = <<"n", "a", "n">> THEN FloatOk(NaN)
        ELSE FloatMantissa(sign, cs, SkipDigits(cs, 1))

\* [sign] of the stripped string
FloatSigned(cs) ==
    IF Len(cs) > 0 /\ cs[1] \in {"+", "-"}
    THEN FloatUnsigned(IF cs[1] = "-" THEN 0 - 1 ELSE 1, Tail(cs))
    ELSE FloatUnsigned(1, cs)

\* float(s): ok = FALSE stands for ValueError.
FloatOfStr(s) == FloatSigned(Strip(Chars(s)))

Raise(e) == [raised |-> TRUE, exc |-> e, v |-> 0]
Return(n) == [raised |-> FALSE, exc |-> "", v |-> n]

\* int(f) of a float: truncation towards zero.
IntOfFloat(f) ==
    CASE f.k = "inf" -> Raise("OverflowError: cannot convert float infinity to integer")
      [] f.k = "nan" -> Raise("ValueError: cannot convert float NaN to integer")
      [] OTHER -> Return(f.sign * (f.num \div f.den))

\* int(v) of an int, a bool (a subclass of int) or a float
IntOfNumber(v) ==
    CASE v.t = "int" -> Return(v.n)
      [] v.t = "bool" -> Return(IF v.b THEN 1 ELSE 0)
      [] OTHER -> IntOfFloat(v.f)

\* isinstance(v, (int, float))
IsIntOrFloat(v) == v.t \in {"int", "bool", "float"}

\* "Ensure confidence is numeric": the value of `confidence`, or the
\* exception that leaves the block.
CoerceConfidence(confidence_raw) ==
    IF IsIntOrFloat(confidence_raw) THEN IntOfNumber(confidence_raw)
    ELSE IF confidence_raw.t = "str"
    THEN LET fl == FloatOfStr(confidence_raw.s)
         IN  IF ~fl.ok THEN Return(0)                 \* except ValueError
             ELSE LET r == IntOfFloat(fl.f)
                  IN  IF r.raised /\ fl.f.k = "nan" THEN Return(0)  \* ValueError
                      ELSE r                          \* OverflowError escapes
    ELSE Return(0)

-----------------------------------------------------------------------------
(* The reasoning service, as the invokers see it *)

\* What a call of the service comes to: it raises (ok = FALSE), or it
\* answers with an object (structured_output) or with a text (agent(...)).
CallFails == [ok |-> FALSE, ans |-> PyNone, text |-> <<>>]
Answers(ans) == [ok |-> TRUE, ans |-> ans, text |-> <<>>]
Says(text) == [ok |-> TRUE, ans |-> PyNone, text |-> text]

IsStr(v) == v.t = "str"
IsInt(v) == v.t = "int"
IsListOfStr(v) == v.t = "list" /\ \A j \in 1..Len(v.items) : IsStr(v.items[j])

\* Field(ge=0, le=100) of DecisionJudgmentResult.confidence
ConfidenceMin == 0
ConfidenceMax == 100

NoInstance == [ok |-> FALSE, obj |-> PyNone]
Instance(obj) == [ok |-> TRUE, obj |-> obj]

\* DecisionJudgmentResult: the instance built from an answer (as
\* model_dump() returns it), or the validation error.
DecisionJudgmentResult(ans) ==
    LET sup == DictGet(ans, "supporting_evidence", PyList(<<>>))
        con == DictGet(ans, "contradicting_evidence", PyList(<<>>))
    IN  IF /\ ans.t = "dict"
           /\ DictHas(ans, "verdict") /\ IsStr(DictGet(ans, "verdict", PyNone))
           /\ DictHas(ans, "confidence")
           /\ IsInt(DictGet(ans, "confidence", PyNone))
           /\ DictGet(ans, "confidence", PyNone).n >= ConfidenceMin
           /\ DictGet(ans, "confidence", PyNone).n <= ConfidenceMax
           /\ DictHas(ans, "rationale") /\ IsStr(DictGet(ans, "rationale", PyNone))
           /\ IsListOfStr(sup) /\ IsListOfStr(con)
        THEN Instance(PyDict(<< <<"verdict", DictGet(ans, "verdict", PyNone)>>,
                                <<"confidence", DictGet(ans, "confidence", PyNone)>>,
                                <<"rationale", DictGet(ans, "rationale", PyNone)>>,
                                <<"supporting_evidence", sup>>,
                                <<"contradicting_evidence", con>> >>))
        ELSE NoInstance

\* TargetLocator / EvidenceLocation: {page: int, span: str}
IsLocator(v) ==
    /\ v.t = "dict"
    /\ IsInt(DictGet(v, "page", PyNone)) /\ IsStr(DictGet(v, "span", PyNone))

Locator(v) == PyDict(<< <<"page", DictGet(v, "page", PyNone)>>,
                        <<"span", DictGet(v, "span", PyNone)>> >>)

IsExtractedClaim(c) ==
    /\ c.t = "dict"
    /\ IsStr(DictGet(c, "claim_id", PyNone))
    /\ IsStr(DictGet(c, "claim_text", PyNone))
    /\ IsLocator(DictGet(c, "target_locator", PyNone))
    /\ IsStr(DictGet(c, "category", PyNone))

ExtractedClaim(c) ==
    PyDict(<< <<"claim_id", DictGet(c, "claim_id", PyNone)>>,
              <<"claim_text", DictGet(c, "claim_text", PyNone)>>,
              <<"target_locator", Locator(DictGet(c, "target_locator", PyNone))>>,
              <<"category", DictGet(c, "category", PyNone)>> >>)

\* ClaimsExtractionResult
ClaimsExtractionResult(ans) ==
    LET cs == DictGet(ans, "claims", PyNone)
    IN  IF /\ ans.t = "dict" /\ cs.t = "list"
           /\ \A j \in 1..Len(cs.items) : IsExtractedClaim(cs.items[j])
        THEN Instance(PyDict(<< <<"claims",
                 PyList([j \in 1..Len(cs.items) |-> ExtractedClaim(cs.items[j])])>> >>))
        ELSE NoInstance

IsEvidence(e) ==
    /\ e.t = "dict"
    /\ IsStr(DictGet(e, "doc_id", PyNone))
    /\ IsStr(DictGet(e, "evidence_text", PyNone))
    /\ IsLocator(DictGet(e, "location", PyNone))
    /\ DictGet(e, "relevance_score", PyNone).t \in {"int", "float"}
    /\ IsStr(DictGet(e, "relationship", PyNone))

Evidence(e) ==
    PyDict(<< <<"doc_id", DictGet(e, "doc_id", PyNone)>>,
              <<"evidence_text", DictGet(e, "evidence_text", PyNone)>>,
              <<"location", Locator(DictGet(e, "location", PyNone))>>,
              <<"relevance_score", DictGet(e, "relevance_score", PyNone)>>,
              <<"relationship", DictGet(e, "relationship", PyNone)>> >>)

\* EvidenceRetrievalResult
EvidenceRetrievalResult(ans) ==
    LET es == DictGet(ans, "evidence", PyNone)
    IN  IF /\ ans.t = "dict" /\ es.t = "list"
           /\ \A j \in 1..Len(es.items) : IsEvidence(es.items[j])
        THEN Instance(PyDict(<< <<"evidence",
                 PyList([j \in 1..Len(es.items) |-> Evidence(es.items[j])])>> >>))
        ELSE NoInstance

IsCitation(c) ==
    /\ c.t = "dict"
    /\ IsStr(DictGet(c, "docId", PyNone))
    /\ IsInt(DictGet(c, "version", PyNone))
    /\ IsInt(DictGet(c, "page", PyNone))
    /\ IsStr(DictGet(c, "span", PyNone))
    /\ DictGet(c, "note", PyNone).t \in {"null", "str"}

Citation(c) ==
    PyDict(<< <<"docId", DictGet(c, "docId", PyNone)>>,
              <<"version", DictGet(c, "version", PyNone)>>,
              <<"page", DictGet(c, "page", PyNone)>>,
              <<"span", DictGet(c, "span", PyNone)>>,
              <<"note", DictGet(c, "note", PyNone)>> >>)

\* CitationBuildingResult
CitationBuildingResult(ans) ==
    LET cs == DictGet(ans, "citations", PyNone)
    IN  IF /\ ans.t = "dict" /\ cs.t = "list"
           /\ \A j \in 1..Len(cs.items) : IsCitation(cs.items[j])
        THEN Instance(PyDict(<< <<"citations",
                 PyList([j \in 1..Len(cs.items) |-> Citation(cs.items[j])])>> >>))
        ELSE NoInstance

-----------------------------------------------------------------------------
(* The four stage invokers.  Each takes what its calls of the reasoning     *)
(* service come to and gives what the invoker does: the string it returns, *)
(* or the exception that leaves it.                                        *)

\* text_calls: the free-text requests the invoker made.
Returns(str) == [raised |-> FALSE, str |-> str, text_calls |-> 0]
ReturnsAfterText(str) == [raised |-> FALSE, str |-> str, text_calls |-> 1]
Escapes == [raised |-> TRUE, str |-> <<>>, text_calls |-> 0]

ErrorPayload(msg) == PyDict(<< <<"error", PyStr(msg)>> >>)

\* ClaimExtractorAgent.extract_claims; so: the structured_output call
ExtractClaims(so) ==
    LET inst == IF so.ok THEN ClaimsExtractionResult(so.ans) ELSE NoInstance
    IN  IF inst.ok THEN Returns(JsonDumps(inst.obj))
        ELSE Returns(JsonDumps(ErrorPayload("Claim extraction failed: <e>")))

\* Config.enable_caching and the size test of retrieve_evidence
CacheThreshold == 1000

\* A size test that takes the threshold itself for large.
RequestFormFromThreshold(enable_caching, source_len) ==
    IF enable_caching /\ source_len >= CacheThreshold THEN "partitioned" ELSE "single"

\* The form of the request retrieve_evidence sends.
RequestForm(enable_caching, source_len) ==
    IF enable_caching /\ source_len > CacheThreshold THEN "partitioned" ELSE "single"

\* lines 86-113: the structured_output calls made for a request of this
\* form, with the agent called, its messages and the prompt of the call.
StructuredRequests(form) ==
    IF form = "partitioned"
    THEN <<[agent |-> "agent_with_messages",
            messages |-> <<"Source Documents: <source_documents>", "cachePoint",
                           "Claim to find evidence for: <claim_text>">>,
            prompt |-> "Find evidence for the claim using the provided source documents."]>>
    ELSE <<[agent |-> "agent", messages |-> <<>>, prompt |-> "<user_prompt>"]>>

\* EvidenceRetrieverAgent.retrieve_evidence
RetrieveEvidence(so) ==
    LET inst == IF so.ok THEN EvidenceRetrievalResult(so.ans) ELSE NoInstance
    IN  IF inst.ok THEN Returns(JsonDumps(inst.obj))
        ELSE Returns(JsonDumps(ErrorPayload("Evidence retrieval failed: <e>")))

\* CitationBuilderAgent.build_citations
BuildCitations(so) ==
    LET inst == IF so.ok THEN CitationBuildingResult(so.ans) ELSE NoInstance
    IN  IF inst.ok THEN Returns(JsonDumps(inst.obj))
        ELSE Returns(JsonDumps(ErrorPayload("Citation building failed: <e>")))

\* re.search(r'\{.*\}', text, re.DOTALL): from the first "{" that has a "}"
\* after it to the last "}" of the text.
ReSearchBraces(text) ==
    LET closes == {j \in 1..Len(text) : text[j].k = "}"}
        lastClose == IF closes = {} THEN 0
                     ELSE CHOOSE j \in closes : \A h \in closes : h <= j
        opens == {j \in 1..Len(text) : text[j].k = "{" /\ j < lastClose}
        firstOpen == CHOOSE j \in opens : \A h \in opens : j <= h
    IN  IF opens = {} THEN [found |-> FALSE, group |-> <<>>]
        ELSE [found |-> TRUE, group |-> SubSeq(text, firstOpen, lastClose)]

\* "Create minimal valid response"
CanonicalFallback ==
    PyDict(<< <<"verdict", PyStr("NOT_FOUND")>>,
              <<"confidence", PyInt(0)>>,
              <<"rationale",
                PyStr("Failed to parse structured output: <response_text[:200]>")>>,
              <<"supporting_evidence", PyList(<<>>)>>,
              <<"contradicting_evidence", PyList(<<>>)>> >>)

\* DecisionJudgeAgent.judge_claim; so: the structured_output call, to: the
\* free-text call, made only when the structured one failed.
JudgeClaim(so, to) ==
    LET inst == IF so.ok THEN DecisionJudgmentResult(so.ans) ELSE NoInstance
        json_match == ReSearchBraces(to.text)
    IN  IF inst.ok THEN Returns(JsonDumps(inst.obj))
        ELSE IF ~to.ok
        THEN ReturnsAfterText(
                 JsonDumps(ErrorPayload("Decision judgment failed: <e>")))
        ELSE IF json_match.found THEN ReturnsAfterText(json_match.group)
        ELSE ReturnsAfterText(JsonDumps(CanonicalFallback))

-----------------------------------------------------------------------------
(* What the environment can hand to a run *)

\* The longest claim list Stage 1 answers with.
MaxClaims == 2

Categories == {"Performance", "Security"}

\* The j-th claim of a Stage 1 answer.
MkClaim(j, category) ==
    PyDict(<< <<"claim_id", PyStr("claim-" \o ToString(j))>>,
              <<"claim_text", PyStr("text of claim " \o ToString(j))>>,
              <<"target_locator",
                PyDict(<< <<"page", PyInt(j)>>, <<"span", PyStr("line")>> >>)>>,
              <<"category", PyStr(category)>> >>)

\* The claim lists Stage 1 answers with: every sequence of categories that
\* starts with FirstCategory (the other half is its mirror image).
FirstCategory == "Performance"
ClaimLists ==
    UNION {{[j \in 1..n |-> MkClaim(j, cats[j])] :
               cats \in {c \in [1..n -> Categories] :
                            n > 0 => c[1] = FirstCategory}} :
           n \in 0..MaxClaims}

\* Stage 1: a list of claims, an answer that is no ClaimsExtractionResult,
\* or a failed call.
Stage1Calls ==
    {Answers(PyDict(<< <<"claims", PyList(cl)>> >>)) : cl \in ClaimLists}
    \cup {Answers(PyDict(<< <<"claims", PyStr("no claims")>> >>)), CallFails}

Evidence1 ==
    PyDict(<< <<"doc_id", PyStr("a.txt")>>,
              <<"evidence_text", PyStr("Load testing confirmed 500 req/s.")>>,
              <<"location",
                PyDict(<< <<"page", PyInt(1)>>, <<"span", PyStr("line")>> >>)>>,
              <<"relevance_score", PyFloat(Fin(1, 9, 10))>>,
              <<"relationship", PyStr("supports")>> >>)

Stage2Calls ==
    {Answers(PyDict(<< <<"evidence", PyList(<<Evidence1>>)>> >>)),
     CallFails}

Citation1 ==
    PyDict(<< <<"docId", PyStr("a.txt")>>, <<"version", PyInt(1)>>,
              <<"page", PyInt(1)>>, <<"span", PyStr("line")>>,
              <<"note", PyNone>> >>)

Stage4Calls ==
    {Answers(PyDict(<< <<"citations", PyList(<<Citation1>>)>> >>)),
     CallFails}

Judgment(verdict, confidence) ==
    PyDict(<< <<"verdict", verdict>>, <<"confidence", confidence>>,
              <<"rationale", PyStr("because")>> >>)

\* The objects the model answers a judgment request of a run with, as the
\* answer of a structured request or written into a free text.
JudgeObjects ==
    {Judgment(PyStr("SUPPORTED"), PyInt(85)),
     Judgment(PyStr("MAYBE"), PyInt(150)),
     Judgment(PyDict(<< <<"value", PyStr("SUPPORTED")>> >>), PyInt(85)),
     Judgment(PyStr("PARTIAL"), PyStr("inf"))}

Stage3Calls == {Answers(o) : o \in JudgeObjects} \cup {CallFails}

\* The free texts the model answers with: an object between two words, no
\* object at all, braces around a word.
TextResponses ==
    {<<Prose>> \o JsonDumps(o) \o <<Prose>> : o \in JudgeObjects}
    \cup {<<Prose>>, <<Tok("{"), Prose, Tok("}")>>}

Stage3TextCalls == {Says(text) : text \in TextResponses} \cup {CallFails}

TargetDirs == {<<>>, <<"target.txt", "other.txt">>}
SourceDirs == {<<>>, <<"a.txt", "b.txt">>}
SessionArgs == {PyNone, PyStr(""), PyStr("run-1")}

\* str(uuid.uuid4())[:8] and datetime.now().strftime('%Y-%m-%d')
Uuid8 == {"1a2b3c4d"}
Today == "2025-01-01"
Now == "2025-01-01T12:00:00"

\* time.time() - start_time, in hundredths of a second
ElapsedCentis == {7, 250}

\* Config.results_dir
ResultsDir == "./results"

-----------------------------------------------------------------------------
(* The results directory *)

\* save_json_result(data, file_path): open(file_path, 'w') and json.dump
\* A write that keeps what the path held before.
SaveJsonResultKeeping(store, data, file_path) ==
    store \cup {[path |-> file_path, data |-> JsonDumps(data)]}

SaveJsonResult(store, data, file_path) ==
    {f \in store : f.path # file_path}
        \cup {[path |-> file_path, data |-> JsonDumps(data)]}

ResultPath(sid) == ResultsDir \o "/" \o sid \o ".json"
ErrorPath(sid) == ResultsDir \o "/" \o sid \o "_error.json"

HasFile(store, file_path) == \E f \in store : f.path = file_path

\* A reader that loses the blocks of what it reads.
LoadFileLosingBlocks(store, file_path) ==
    LET r == JsonLoads((CHOOSE f \in store : f.path = file_path).data)
    IN  [ok |-> r.ok, v |-> DictSet(r.v, "blocks", PyList(<<>>))]

\* json.load of the file at file_path, as the viewer reads it
LoadFile(store, file_path) ==
    JsonLoads((CHOOSE f \in store : f.path = file_path).data)

-----------------------------------------------------------------------------
(* verify_document *)

\* The latest stage call: the stage, the claim, the evidence_result and the
\* source argument the call was handed (<<>> for the stages that take
\* none), what it returned.
NoCall ==
    [stage |-> "none", k |-> 0, evidence |-> <<>>, sources |-> <<>>,
     returned |-> <<>>, text_calls |-> 0]
Call(stage, k, evidence, sources, r) ==
    [stage |-> stage, k |-> k, evidence |-> evidence, sources |-> sources,
     returned |-> r.str, text_calls |-> r.text_calls]

\* A source text made of the first source document only.
SourceDocsTextOfFirst(sources) ==
    IF Len(sources) = 0 THEN <<>>
    ELSE <<"=== " \o sources[1] \o " ===\n<content of " \o sources[1] \o ">">>

\* lines 207-212: source_docs_text, the documents in the order of the dict;
\* the separator stands between two entries of the sequence.
SourceDocsText(sources) ==
    [j \in 1..Len(sources) |->
        "=== " \o sources[j] \o " ===\n<content of " \o sources[j] \o ">"]

\* A call of the citation builder with its two arguments exchanged.
CitationArgsSwapped(evidence, sources) ==
    [evidence_result |->
         JsonDumps(PyDict(<< <<"source_files",
             PyList([j \in 1..Len(sources) |-> PyStr(sources[j])])>> >>)),
     source_info |-> evidence]

\* lines 284-286: the arguments of self.citation_builder
CitationArgs(evidence, sources) ==
    [evidence_result |-> evidence,
     source_info |->
         JsonDumps(PyDict(<< <<"source_files",
             PyList([j \in 1..Len(sources) |-> PyStr(sources[j])])>> >>))]

\* line 267: the arguments of self.decision_judge
JudgeArgs(claim, evidence) ==
    [claim_text |-> DictGet(claim, "claim_text", PyStr("")),
     evidence_result |-> evidence]

\* The payload an invoker returns from its except clause: {"error": ...}
IsErrorPayload(str) ==
    LET parsed == JsonLoads(str)
    IN  parsed.ok /\ parsed.v.t = "dict" /\ DictHas(parsed.v, "error")

\* One stage call of the run: the stage, and the claim it was made for (0
\* for Stage 1).
LogEntry(stage, k) == [stage |-> stage, k |-> k]

\* claims_data['claims'] in the place of the .get(...) of line 249: a
\* payload with no claims raises.
GetClaimsStrict(claims_data) ==
    IF DictHas(claims_data, "claims")
    THEN Return(DictGet(claims_data, "claims", PyNone))
    ELSE Raise("KeyError: 'claims'")

\* line 249: claims = claims_data.get('claims', [])
GetClaims(claims_data) == Return(DictGet(claims_data, "claims", PyList(<<>>)))

\* lines 162-163: the session id of the run
BeginFrom(uuids) ==
    /\ pc = "start"
    /\ \E u \in uuids :
          session_id' = IF session_id = PyNone \/ session_id = PyStr("")
                        THEN PyStr("sess-" \o Today \o "-" \o u)
                        ELSE session_id
    /\ pc' = "load"
    /\ UNCHANGED <<envVars, fnVars, files, target_file, source_documents, claims,
                   i, evidence_result, judgment_data, verified_claims,
                   result_data, exc, ret, log, last>>

Begin == BeginFrom(Uuid8)

\* lines 181-225: load_target_document, load_source_documents, the prompt
LoadDocuments ==
    /\ pc = "load"
    /\ IF target_dir = <<>>
       THEN /\ pc' = "except"
            /\ exc' = "No TXT files found in target directory"
            /\ UNCHANGED <<target_file, source_documents>>
       ELSE /\ pc' = "extract"
            /\ target_file' = target_dir[1]
            /\ source_documents' = source_dir
            /\ UNCHANGED exc
    /\ UNCHANGED <<envVars, fnVars, files, session_id, claims, i,
                   evidence_result, judgment_data, verified_claims,
                   result_data, ret, log, last>>

\* lines 237-249: Stage 1 and the claims to process
ExtractStep ==
    /\ pc = "extract"
    /\ \E so \in Stage1Calls :
          LET r == ExtractClaims(so)
              claims_data == JsonLoads(r.str)
              cs == GetClaims(claims_data.v)
          IN  /\ log' = Append(log, LogEntry("extract_claims", 0))
              /\ IF r.raised
                 THEN /\ pc' = "except" /\ exc' = "stage invoker raised"
                      /\ UNCHANGED <<claims, i, last>>
                 ELSE /\ last' = Call("extract_claims", 0, <<>>, <<>>, r)
                      /\ IF ~claims_data.ok
                         THEN /\ pc' = "except" /\ exc' = "JSONDecodeError"
                              /\ UNCHANGED <<claims, i>>
                         ELSE IF cs.raised
                         THEN /\ pc' = "except" /\ exc' = cs.exc
                              /\ UNCHANGED <<claims, i>>
                         ELSE /\ claims' = cs.v.items
                              /\ i' = 1
                              /\ pc' = IF Len(cs.v.items) > 0 THEN "evidence"
                                       ELSE "aggregate"
                              /\ UNCHANGED exc
    /\ UNCHANGED <<envVars, fnVars, files, session_id, target_file,
                   source_documents, evidence_result, judgment_data,
                   verified_claims, result_data, ret>>

\* lines 251-263: Stage 2 for claim i
EvidenceStep ==
    /\ pc = "evidence"
    /\ \E so \in Stage2Calls :
          LET r == RetrieveEvidence(so)
              evidence_data == JsonLoads(r.str)
          IN  /\ log' = Append(log, LogEntry("retrieve_evidence", i))
              /\ IF r.raised
                 THEN /\ pc' = "except" /\ exc' = "stage invoker raised"
                      /\ UNCHANGED <<evidence_result, last>>
                 ELSE /\ last' = Call("retrieve_evidence", i, <<>>,
                                      SourceDocsText(source_documents), r)
                      /\ evidence_result' = r.str
                      /\ IF ~evidence_data.ok
                         THEN pc' = "except" /\ exc' = "JSONDecodeError"
                         ELSE pc' = "judge" /\ UNCHANGED exc
    /\ UNCHANGED <<envVars, fnVars, files, session_id, target_file,
                   source_documents, claims, i, judgment_data, verified_claims,
                   result_data, ret>>

\* lines 268-277: judgment_data = json.loads(judgment_result), and the
\* lookup of the interim verdict in the dict of colours
ReadJudgment(judgment_result) ==
    LET parsed == JsonLoads(judgment_result)
    IN  IF ~parsed.ok THEN Raise("JSONDecodeError")
        ELSE IF ~Hashable(DictGet(parsed.v, "verdict", PyStr("NOT_FOUND")))
        THEN Raise("TypeError: unhashable type")
        ELSE Return(parsed.v)

\* lines 265-280: Stage 3 for claim i, and the interim verdict printed
JudgeStep ==
    /\ pc = "judge"
    /\ \E so \in Stage3Calls, to \in Stage3TextCalls :
          LET r == JudgeClaim(so, to)
              read == ReadJudgment(r.str)
          IN  /\ log' = Append(log, LogEntry("judge_claim", i))
              /\ IF r.raised
                 THEN /\ pc' = "except" /\ exc' = "stage invoker raised"
                      /\ UNCHANGED <<judgment_data, last>>
                 ELSE /\ last' = Call("judge_claim", i,
                                      JudgeArgs(claims[i], evidence_result)
                                          .evidence_result, <<>>, r)
                      /\ IF read.raised
                         THEN /\ pc' = "except" /\ exc' = read.exc
                              /\ UNCHANGED judgment_data
                         ELSE /\ judgment_data' = read.v
                              /\ pc' = "cite"
                              /\ UNCHANGED exc
    /\ UNCHANGED <<envVars, fnVars, files, session_id, target_file,
                   source_documents, claims, i, evidence_result,
                   verified_claims, result_data, ret>>

\* judgment_data.get("verdict") in the place of line 292: no fallback.
CoerceVerdictNoDefault(judgment) ==
    LET verdict == DictGet(judgment, "verdict", PyNone)
    IN  IF verdict.t = "dict" THEN PyStr("NOT_FOUND") ELSE verdict

\* lines 291-298: "Extract verdict with fallback", "Handle potential nested
\* structure"
CoerceVerdict(judgment) ==
    LET verdict == DictGet(judgment, "verdict", PyStr("NOT_FOUND"))
    IN  IF verdict.t = "dict" THEN PyStr("NOT_FOUND") ELSE verdict

\* citation_data["citations"] in the place of the .get(...) of line 317: a
\* payload with no citations raises.
GetCitationsStrict(citation_data) ==
    IF DictHas(citation_data, "citations")
    THEN Return(DictGet(citation_data, "citations", PyNone))
    ELSE Raise("KeyError: 'citations'")

\* line 317: citation_data.get("citations", [])
GetCitations(citation_data) ==
    Return(DictGet(citation_data, "citations", PyList(<<>>)))

\* lines 287-318: citation_data = json.loads(citation_result), the verdict
\* and the confidence, "Combine results"
AssembleClaim(claim, judgment, citation_result) ==
    LET citation_data == JsonLoads(citation_result)
        confidence == CoerceConfidence(DictGet(judgment, "confidence", PyInt(0)))
    IN  IF ~citation_data.ok THEN Raise("JSONDecodeError")
        ELSE IF confidence.raised THEN Raise(confidence.exc)
        ELSE IF GetCitations(citation_data.v).raised
        THEN Raise(GetCitations(citation_data.v).exc)
        ELSE Return(DictUpdate(claim,
                 PyDict(<< <<"verdict", CoerceVerdict(judgment)>>,
                           <<"confidence", PyInt(confidence.v)>>,
                           <<"rationale",
                             DictGet(judgment, "rationale",
                                     PyStr("No rationale provided"))>>,
                           <<"citations", GetCitations(citation_data.v).v>> >>)))

\* A loop that stops one claim early.
AfterClaimSkipsLast(k, n) == IF k + 1 < n THEN "evidence" ELSE "aggregate"

\* line 251: the loop goes on to the next claim, or ends
AfterClaim(k, n) == IF k < n THEN "evidence" ELSE "aggregate"

\* lines 282-334: Stage 4 for claim i, then the claim is assembled
CiteStep ==
    /\ pc = "cite"
    /\ \E so \in Stage4Calls :
          LET r == BuildCitations(so)
              assembled == AssembleClaim(claims[i], judgment_data, r.str)
          IN  /\ log' = Append(log, LogEntry("build_citations", i))
              /\ IF r.raised
                 THEN /\ pc' = "except" /\ exc' = "stage invoker raised"
                      /\ UNCHANGED <<verified_claims, i, last>>
                 ELSE /\ last' = Call("build_citations", i,
                                      CitationArgs(evidence_result,
                                          source_documents).evidence_result,
                                      CitationArgs(evidence_result,
                                          source_documents).source_info, r)
                      /\ IF assembled.raised
                         THEN /\ pc' = "except" /\ exc' = assembled.exc
                              /\ UNCHANGED <<verified_claims, i>>
                         ELSE /\ verified_claims' = Append(verified_claims, assembled.v)
                              /\ i' = i + 1
                              /\ pc' = AfterClaim(i, Len(claims))
                              /\ UNCHANGED exc
    /\ UNCHANGED <<envVars, fnVars, files, session_id, target_file,
                   source_documents, claims, evidence_result, judgment_data,
                   result_data, ret>>

\* s[:n], for the strings of the model (all shorter than n)
Truncate(s, n) == IF Len(s) <= n THEN s ELSE "<the first n characters>"

\* str.lower()
StrLower(s) ==
    CASE s = "Performance" -> "performance"
      [] s = "Security" -> "security"
      [] s = "General" -> "general"
      [] OTHER -> s

\* f"{n}": the number with no padding
FormatNoPad(n) == ToString(n)

\* f"{n:02d}"
Format02d(n) ==
    IF n < 10 THEN "0" \o ToString(n) ELSE ToString(n)

\* lines 349-357: the block created when a category is first seen
NewBlock(category, n) ==
    PyDict(<< <<"block_id", PyStr("block-" \o Format02d(n))>>,
              <<"title", PyStr("Block: " \o category)>>,
              <<"description", PyStr("Claims related to " \o StrLower(category))>>,
              <<"details", PyDict(<< <<"pageRange",
                                       PyList(<<PyInt(1), PyInt(50)>>)>> >>)>>,
              <<"priority", PyStr("high")>>,
              <<"status", PyStr("completed")>>,
              <<"claims", PyList(<<>>)>> >>)

\* lines 360-375: "Convert claim to final format"
FinalClaim(claim) ==
    LET text == DictGet(claim, "claim_text", PyStr(""))
    IN  PyDict(<< <<"claim_id", DictGet(claim, "claim_id", PyNone)>>,
                  <<"title", PyStr("Claim: " \o Truncate(text.s, 50) \o "...")>>,
                  <<"description", text>>,
                  <<"details",
                    PyDict(<< <<"claimText", text>>,
                              <<"targetLocator",
                                DictGet(claim, "target_locator", PyDict(<<>>))>>,
                              <<"verdict",
                                DictGet(claim, "verdict", PyStr("NOT_FOUND"))>>,
                              <<"confidence", DictGet(claim, "confidence", PyInt(0))>>,
                              <<"rationale", DictGet(claim, "rationale", PyStr(""))>>,
                              <<"citations",
                                DictGet(claim, "citations", PyList(<<>>))>> >>)>>,
                  <<"priority", PyStr("high")>>,
                  <<"dependencies", PyList(<<>>)>>,
                  <<"status", PyStr("completed")>> >>)

RECURSIVE GroupBlocksReplacing(_, _)
\* A grouping in which a claim takes the place of the claims its block held.
GroupBlocksReplacing(vcs, blocks) ==
    IF Len(vcs) = 0 THEN blocks
    ELSE LET claim == vcs[1]
             category == DictGet(claim, "category", PyStr("General")).s
             withBlock == IF DictHas(blocks, category) THEN blocks
                          ELSE DictSet(blocks, category,
                                       NewBlock(category, Len(blocks.m) + 1))
             grown == DictSet(DictGet(withBlock, category, PyNone), "claims",
                              PyList(<<FinalClaim(claim)>>))
         IN  GroupBlocksReplacing(Tail(vcs), DictSet(withBlock, category, grown))

RECURSIVE GroupBlocks(_, _)
\* lines 344-376: "Group claims by category into blocks"; blocks is the
\* dict built so far, keyed by category.
GroupBlocks(vcs, blocks) ==
    IF Len(vcs) = 0 THEN blocks
    ELSE LET claim == vcs[1]
             category == DictGet(claim, "category", PyStr("General")).s
             withBlock == IF DictHas(blocks, category) THEN blocks
                          ELSE DictSet(blocks, category,
                                       NewBlock(category, Len(blocks.m) + 1))
             block == DictGet(withBlock, category, PyNone)
             block_claims == DictGet(block, "claims", PyNone).items
             grown == DictSet(block, "claims",
                              PyList(Append(block_claims, FinalClaim(claim))))
         IN  GroupBlocks(Tail(vcs), DictSet(withBlock, category, grown))

\* list(d.values())
DictValues(d) == [j \in 1..Len(d.m) |-> d.m[j][2]]

Max(a, b) == IF a >= b THEN a ELSE b

\* round(a / b) to the nearest integer, halves to the even one
RoundDiv(a, b) ==
    LET q == a \div b
        twice == 2 * (a % b)
    IN  IF twice < b THEN q
        ELSE IF twice > b THEN q + 1
        ELSE IF q % 2 = 0 THEN q ELSE q + 1

\* Config.enable_caching (its default)
EnableCaching == TRUE

\* A performance record whose average is 0 when no claim was processed.
PerformanceZeroAvg(total_time, n) ==
    PyDict(<< <<"total_time_seconds", PyFloat(Fin(1, total_time, 100))>>,
              <<"claims_processed", PyInt(n)>>,
              <<"avg_time_per_claim",
                PyFloat(Fin(1, IF n = 0 THEN 0 ELSE RoundDiv(total_time, n), 100))>>,
              <<"caching_enabled", PyBool(EnableCaching)>> >>)

\* lines 410-415; total_time in hundredths of a second
Performance(total_time, n) ==
    PyDict(<< <<"total_time_seconds", PyFloat(Fin(1, total_time, 100))>>,
              <<"claims_processed", PyInt(n)>>,
              <<"avg_time_per_claim",
                PyFloat(Fin(1, RoundDiv(total_time, Max(n, 1)), 100))>>,
              <<"caching_enabled", PyBool(EnableCaching)>> >>)

\* lines 379-399 and 410: the report
ResultData(sid, tfile, sources, vcs, total_time) ==
    PyDict(<< <<"document_id", sid>>,
              <<"title", PyStr(tfile \o " Verification vs Sources")>>,
              <<"description",
                PyStr("Target: " \o tfile \o " is verified against source documents")>>,
              <<"details",
                PyDict(<< <<"sourceDocuments",
                    PyList([j \in 1..Len(sources) |->
                        PyDict(<< <<"docId", PyStr(sources[j])>>,
                                  <<"version", PyInt(1)>>,
                                  <<"kind", PyStr("source_document")>> >>)])>> >>)>>,
              <<"priority", PyStr("high")>>,
              <<"dependencies", PyList(<<>>)>>,
              <<"status", PyStr("completed")>>,
              <<"blocks", PyList(DictValues(GroupBlocks(vcs, PyDict(<<>>))))>>,
              <<"audit",
                PyDict(<< <<"createdBy", PyStr("strands-verifier")>>,
                          <<"createdAt", PyStr(Now)>>,
                          <<"reviewStage", PyStr("automated")>>,
                          <<"notes",
                            PyStr("Automated verification using multi-agent analysis")>> >>)>>,
              <<"performance", Performance(total_time, Len(vcs))>> >>)

\* lines 336-445: the report is built and written, and its path returned.
\* The locals of the loop (evidence_result, judgment_data) end with the call.
PersistStep ==
    /\ pc = "aggregate"
    /\ \E total_time \in ElapsedCentis :
          LET report == ResultData(session_id, target_file, source_documents,
                                   verified_claims, total_time)
          IN  /\ result_data' = report
              /\ files' = SaveJsonResult(files, report, ResultPath(session_id.s))
    /\ ret' = ResultPath(session_id.s)
    /\ pc' = "persisted"
    /\ evidence_result' = <<>>
    /\ judgment_data' = PyNone
    /\ UNCHANGED <<envVars, fnVars, session_id, target_file, source_documents,
                   claims, i, verified_claims, exc, log, last>>

\* An error record that salvages the claims verified so far.
ErrorResultWithClaims(sid, e) ==
    PyDict(<< <<"document_id", sid>>,
              <<"error", PyStr(e)>>,
              <<"timestamp", PyStr(Now)>>,
              <<"claims", PyList(verified_claims)>> >>)

\* lines 459-463
ErrorResult(sid, e) ==
    PyDict(<< <<"document_id", sid>>,
              <<"error", PyStr(e)>>,
              <<"timestamp", PyStr(Now)>> >>)

\* An except clause at the boundary of a claim: the claim that failed is
\* dropped and the loop goes on.
ExceptStepPerClaim ==
    /\ pc = "except"
    /\ i >= 1 /\ i <= Len(claims)
    /\ i' = i + 1
    /\ pc' = IF i < Len(claims) THEN "evidence" ELSE "aggregate"
    /\ UNCHANGED <<envVars, fnVars, files, session_id, target_file,
                   source_documents, claims, evidence_result, judgment_data,
                   verified_claims, result_data, exc, ret, log, last>>

\* lines 447-466: the except clause of the run; the locals of the loop end
\* with the call.
ExceptStep ==
    /\ pc = "except"
    /\ files' = SaveJsonResult(files, ErrorResult(session_id, exc),
                               ErrorPath(session_id.s))
    /\ ret' = ErrorPath(session_id.s)
    /\ pc' = "failed"
    /\ evidence_result' = <<>>
    /\ judgment_data' = PyNone
    /\ UNCHANGED <<envVars, fnVars, session_id, target_file, source_documents,
                   claims, i, verified_claims, result_data, exc, log, last>>

\* verify_document is called: the directories, the session id it is given,
\* an empty results directory.
RunStart ==
    /\ target_dir \in TargetDirs
    /\ source_dir \in SourceDirs
    /\ files = {}
    /\ pc = "start"
    /\ session_id \in SessionArgs
    /\ target_file = ""
    /\ source_documents = <<>>
    /\ claims = <<>>
    /\ i = 0
    /\ evidence_result = <<>>
    /\ judgment_data = PyNone
    /\ verified_claims = <<>>
    /\ result_data = PyNone
    /\ exc = ""
    /\ ret = ""
    /\ log = <<>>
    /\ last = NoCall

Init ==
    /\ RunStart
    /\ fnIn = PyNone
    /\ fnOut = PyNone

Next ==
    \/ Begin
    \/ LoadDocuments
    \/ ExtractStep
    \/ EvidenceStep
    \/ JudgeStep
    \/ CiteStep
    \/ PersistStep
    \/ ExceptStep

Spec == Init /\ [][Next]_vars

-----------------------------------------------------------------------------
(* The run with a standard output that can fail.  Every print of            *)
(* verify_document writes to sys.stdout, and a write to a closed or         *)
(* non-blocking pipe raises OSError; the prints of lines 421-443 and of     *)
(* lines 448-457 are inside the try and inside the except clause.           *)

StdoutError == "OSError: write to stdout failed"

\* lines 336-443: the report is built and written (line 418), then a print
\* of the summary raises; the exception is caught at line 447.
SummaryRaises ==
    /\ pc = "aggregate"
    /\ \E total_time \in ElapsedCentis :
          LET report == ResultData(session_id, target_file, source_documents,
                                   verified_claims, total_time)
          IN  /\ result_data' = report
              /\ files' = SaveJsonResult(files, report, ResultPath(session_id.s))
    /\ pc' = "except"
    /\ exc' = StdoutError
    /\ UNCHANGED <<envVars, fnVars, session_id, target_file, source_documents,
                   claims, i, evidence_result, judgment_data, verified_claims,
                   ret, log, last>>

\* lines 447-457: a print of the except clause raises; the exception leaves
\* verify_document before the error record is written.
ExceptPrintRaises ==
    /\ pc = "except"
    /\ pc' = "raised"
    /\ exc' = StdoutError
    /\ evidence_result' = <<>>
    /\ judgment_data' = PyNone
    /\ UNCHANGED <<envVars, fnVars, files, session_id, target_file,
                   source_documents, claims, i, verified_claims, result_data,
                   ret, log, last>>

NextStdout == Next \/ SummaryRaises \/ ExceptPrintRaises

SpecStdout == Init /\ [][NextStdout]_vars

-----------------------------------------------------------------------------
(* Runs one after the other over the same results directory: the verify     *)
(* command is run again (main.py:97-98) once the run before has ended.      *)
(* fnOut counts the runs and keeps what each run was started with and how   *)
(* it ended.  A run is followed as long as the service has answered every   *)
(* request with valid output and Stage 1 has given one claim at most; how   *)
(* a run writes its files does not depend on more.                          *)

\* The most runs made over one results directory.
MaxRuns == 2

\* The values str(uuid.uuid4())[:8] is drawn from in these runs.
Uuid8Runs == Uuid8 \cup {"9f8e7d6c"}

FirstRun(arg) == [runs |-> 1, arg |-> arg, past |-> <<>>]

\* What is kept of a run that has ended.
EndedRun == [arg |-> fnOut.arg, sid |-> session_id, pc |-> pc,
             report |-> result_data]

\* The service has answered with valid output so far, one claim at most.
Quiet ==
    /\ Len(claims) <= 1
    /\ last.text_calls = 0
    /\ ~IsErrorPayload(last.returned)

InitRuns ==
    /\ RunStart
    /\ fnIn = PyNone
    /\ fnOut = FirstRun(session_id)

BeginRuns == BeginFrom(Uuid8Runs)

\* main.py:97-98: a new orchestrator and a new call of verify_document; the
\* results directory is the one of the run before.
NewRun ==
    /\ pc \in {"persisted", "failed"}
    /\ fnOut.runs < MaxRuns
    /\ \E arg \in SessionArgs :
          /\ session_id' = arg
          /\ fnOut' = [runs |-> fnOut.runs + 1, arg |-> arg,
                       past |-> Append(fnOut.past, EndedRun)]
    /\ pc' = "start"
    /\ target_file' = "" /\ source_documents' = <<>> /\ claims' = <<>>
    /\ i' = 0 /\ evidence_result' = <<>> /\ judgment_data' = PyNone
    /\ verified_claims' = <<>> /\ result_data' = PyNone
    /\ exc' = "" /\ ret' = "" /\ log' = <<>> /\ last' = NoCall
    /\ UNCHANGED <<envVars, files, fnIn>>

NextRuns ==
    \/ BeginRuns
    \/ Quiet /\ (LoadDocuments \/ ExtractStep \/ EvidenceStep \/ JudgeStep
                    \/ CiteStep \/ PersistStep \/ ExceptStep)
    \/ NewRun

SpecRuns == InitRuns /\ [][NextRuns]_vars

-----------------------------------------------------------------------------
(* The verify command of main.py around the run.  fnIn says whether the     *)
(* two directories exist (a directory that does not exist has no file),     *)
(* fnOut where the command is; pc = "idle" until verify_document is called. *)

\* A check of existence only.
SetupErrorExistsOnly(source_exists, target_exists, source_files, target_files) ==
    IF ~source_exists THEN "Source directory does not exist"
    ELSE IF ~target_exists THEN "Target directory does not exist"
    ELSE ""

\* main.py:65-79: the message of the ClickException raised, "" if none is
SetupError(source_exists, target_exists, source_files, target_files) ==
    IF ~source_exists THEN "Source directory does not exist"
    ELSE IF ~target_exists THEN "Target directory does not exist"
    ELSE IF source_files = <<>> THEN "No TXT files found in source directory"
    ELSE IF target_files = <<>> THEN "No TXT files found in target directory"
    ELSE ""

InitMain ==
    /\ target_dir \in TargetDirs
    /\ source_dir \in SourceDirs
    /\ fnIn \in {d \in [source_exists : BOOLEAN, target_exists : BOOLEAN] :
                    /\ ~d.source_exists => source_dir = <<>>
                    /\ ~d.target_exists => target_dir = <<>>}
    /\ fnOut = [at |-> "command", message |-> ""]
    /\ files = {}
    /\ pc = "idle"
    /\ session_id \in SessionArgs
    /\ target_file = "" /\ source_documents = <<>> /\ claims = <<>> /\ i = 0
    /\ evidence_result = <<>> /\ judgment_data = PyNone
    /\ verified_claims = <<>> /\ result_data = PyNone
    /\ exc = "" /\ ret = "" /\ log = <<>> /\ last = NoCall

\* main.py:34-98 and 111-113: the results directory is made, the
\* directories are checked; a ClickException is caught at line 111, its
\* message echoed and the command aborted; with none verify_document is
\* called.
VerifyCommand ==
    /\ fnOut.at = "command"
    /\ LET message == SetupError(fnIn.source_exists, fnIn.target_exists,
                                 source_dir, target_dir)
       IN  IF message # ""
           THEN /\ fnOut' = [at |-> "aborted", message |-> message]
                /\ UNCHANGED pc
           ELSE /\ fnOut' = [at |-> "pipeline", message |-> ""]
                /\ pc' = "start"
    /\ UNCHANGED <<envVars, fnIn, files, session_id, target_file,
                   source_documents, claims, i, evidence_result, judgment_data,
                   verified_claims, result_data, exc, ret, log, last>>

\* main.py:98-103: verify_document has returned a path, which is echoed
VerifyReturns ==
    /\ fnOut.at = "pipeline"
    /\ pc \in {"persisted", "failed"}
    /\ fnOut' = [at |-> "completed", message |-> "Results saved to: " \o ret]
    /\ UNCHANGED <<envVars, runVars, fnIn>>

NextMain == VerifyCommand \/ Next \/ VerifyReturns

SpecMain == InitMain /\ [][NextMain]_vars

-----------------------------------------------------------------------------
(* One claim's judgment on its own: judge_claim, then lines 268-318 of      *)
(* verify_document, over every kind of answer the service can give.  fnIn   *)
(* holds the calls of the service, fnOut what the code has made of them.    *)

\* A field the answer does not have.
Absent == [t |-> "absent"]

RawVerdicts ==
    {PyStr("SUPPORTED"), PyStr("MAYBE"), PyNone,
     PyDict(<< <<"value", PyStr("SUPPORTED")>> >>),
     PyList(<<PyStr("PARTIAL")>>)}

RawConfidenceStrs ==
    {"", "72", "85", "150", "-3", "+7", "72.9", "-0.5", ".5", "7.", ".",
     " 72 ", "7 2", "1e2", "25E-1", "1e", "1e999", "0e999", "inf", "-Infinity",
     "nan", "abc", "72%"}

RawConfidences ==
    {PyInt(85), PyInt(0), PyInt(150), PyInt(-3), PyBool(TRUE),
     PyFloat(Fin(1, 729, 10)), PyFloat(Fin(-1, 5, 10)), PyFloat(Inf(1)),
     PyFloat(NaN), PyNone, PyDict(<<>>), PyList(<<PyInt(85)>>)}
    \cup {PyStr(s) : s \in RawConfidenceStrs}

\* A judgment object with the fields the answer has.
RawJudgment(verdict, confidence) ==
    PyDict((IF verdict = Absent THEN <<>> ELSE << <<"verdict", verdict>> >>)
           \o (IF confidence = Absent THEN <<>>
               ELSE << <<"confidence", confidence>> >>)
           \o << <<"rationale", PyStr("because")>> >>)

RawJudgments ==
    {RawJudgment(v, c) : v \in RawVerdicts \cup {Absent},
                         c \in RawConfidences \cup {Absent}}

\* The free texts: an object between two words, two objects, no object,
\* braces around a word.
RawTexts ==
    {<<Prose>> \o JsonDumps(o) \o <<Prose>> : o \in RawJudgments}
    \cup {JsonDumps(Judgment(PyStr("SUPPORTED"), PyInt(85))) \o <<Prose>>
            \o JsonDumps(Judgment(PyStr("PARTIAL"), PyInt(40))),
          <<Prose>>, <<Tok("{"), Prose, Tok("}")>>}

FnStage3Calls ==
    {Answers(Judgment(PyStr("SUPPORTED"), PyInt(85))),
     Answers(Judgment(PyStr("MAYBE"), PyInt(150))), CallFails}
FnStage3TextCalls == {Says(text) : text \in RawTexts} \cup {CallFails}

FnStart ==
    [at |-> "call", r |-> Returns(<<>>), read |-> Return(PyNone),
     claim |-> Return(PyNone)]

\* The run is not going: only fnIn and fnOut change.
InitJudgment ==
    /\ target_dir = <<>> /\ source_dir = <<>> /\ files = {}
    /\ pc = "idle" /\ session_id = PyNone /\ target_file = ""
    /\ source_documents = <<>> /\ claims = <<>> /\ i = 0
    /\ evidence_result = <<>> /\ judgment_data = PyNone
    /\ verified_claims = <<>> /\ result_data = PyNone
    /\ exc = "" /\ ret = "" /\ log = <<>> /\ last = NoCall
    /\ fnIn \in [so : FnStage3Calls, to : FnStage3TextCalls]
    /\ fnOut = FnStart

\* judge_claim(claim_text, evidence_result)
FnJudgeClaim ==
    /\ fnOut.at = "call"
    /\ fnOut' = [fnOut EXCEPT !.at = "judged",
                               !.r = JudgeClaim(fnIn.so, fnIn.to)]
    /\ UNCHANGED <<envVars, runVars, fnIn>>

\* lines 268-277
FnReadJudgment ==
    /\ fnOut.at = "judged"
    /\ ~fnOut.r.raised
    /\ fnOut' = [fnOut EXCEPT !.at = "read",
                               !.read = ReadJudgment(fnOut.r.str)]
    /\ UNCHANGED <<envVars, runVars, fnIn>>

\* lines 282-318
FnAssembleClaim ==
    /\ fnOut.at = "read"
    /\ ~fnOut.read.raised
    /\ \E so \in Stage4Calls :
          fnOut' = [fnOut EXCEPT
                       !.at = "assembled",
                       !.claim = AssembleClaim(MkClaim(1, FirstCategory),
                                               fnOut.read.v,
                                               BuildCitations(so).str)]
    /\ UNCHANGED <<envVars, runVars, fnIn>>

NextJudgment == FnJudgeClaim \/ FnReadJudgment \/ FnAssembleClaim

SpecJudgment == InitJudgment /\ [][NextJudgment]_vars

-----------------------------------------------------------------------------
(* The grouping of lines 344-376 on its own, over every sequence of         *)
(* verified claims up to MaxBlockClaims, with and without a category.       *)

\* The longest sequence of verified claims that is grouped.
MaxBlockClaims == 4

NoCategory == "<no category>"
BlockCategories == Categories \cup {NoCategory}

\* No run is going: the variables of the run keep their idle values.
NoRun ==
    /\ target_dir = <<>> /\ source_dir = <<>> /\ files = {}
    /\ pc = "idle" /\ session_id = PyNone /\ target_file = ""
    /\ source_documents = <<>> /\ claims = <<>> /\ i = 0
    /\ evidence_result = <<>> /\ judgment_data = PyNone
    /\ verified_claims = <<>> /\ result_data = PyNone
    /\ exc = "" /\ ret = "" /\ log = <<>> /\ last = NoCall

\* The j-th verified claim, as lines 310-318 assemble it; with NoCategory
\* the claim has no 'category' key.
VerifiedClaim(j, category) ==
    LET extracted == MkClaim(j, category)
        claim == IF category = NoCategory
                 THEN PyDict(SelectSeq(extracted.m,
                                       LAMBDA kv : kv[1] # "category"))
                 ELSE extracted
    IN  AssembleClaim(claim, Judgment(PyStr("SUPPORTED"), PyInt(85)),
                      BuildCitations(CallFails).str).v

VerifiedLists ==
    UNION {{[j \in 1..n |-> VerifiedClaim(j, cats[j])] :
               cats \in [1..n -> BlockCategories]} :
           n \in 0..MaxBlockClaims}

InitBlocks ==
    /\ NoRun
    /\ fnIn \in VerifiedLists
    /\ fnOut = PyNone

\* lines 344-376 and 392: blocks = {} ... list(blocks.values())
FnGroupBlocks ==
    /\ fnOut = PyNone
    /\ fnOut' = PyList(DictValues(GroupBlocks(fnIn, PyDict(<<>>))))
    /\ UNCHANGED <<envVars, runVars, fnIn>>

NextBlocks == FnGroupBlocks

SpecBlocks == InitBlocks /\ [][NextBlocks]_vars

-----------------------------------------------------------------------------
(* retrieve_evidence on its own, with caching enabled and disabled, over    *)
(* source texts shorter and longer than the threshold, and every kind of    *)
(* answer of the service.                                                   *)

\* The longest source text, in characters.
MaxSourceLen == 1002

SourceLens == {0, 1} \cup {n \in 998..MaxSourceLen : TRUE}

FnStage2Calls ==
    Stage2Calls
    \cup {Answers(PyDict(<< <<"evidence", PyList(<<>>)>> >>)),
          Answers(PyDict(<< <<"evidence", PyStr("no evidence")>> >>))}

InitRetrieval ==
    /\ NoRun
    /\ fnIn \in [enable_caching : BOOLEAN, source_len : SourceLens,
                 so : FnStage2Calls]
    /\ fnOut = [at |-> "call", requests |-> <<>>, r |-> Returns(<<>>)]

\* retrieve_evidence(claim_text, source_documents), lines 65-118
FnRetrieveEvidence ==
    /\ fnOut.at = "call"
    /\ fnOut' = [at |-> "returned",
                 requests |-> StructuredRequests(
                                  RequestForm(fnIn.enable_caching, fnIn.source_len)),
                 r |-> RetrieveEvidence(fnIn.so)]
    /\ UNCHANGED <<envVars, runVars, fnIn>>

NextRetrieval == FnRetrieveEvidence

SpecRetrieval == InitRetrieval /\ [][NextRetrieval]_vars

-----------------------------------------------------------------------------
(* A run whose writes to the results directory can raise: open(file_path,   *)
(* 'w') of save_json_result raises OSError (a results directory that is     *)
(* missing or not writable, a session id that names a directory that does   *)
(* not exist) before anything is written.  The run takes its next step      *)
(* whenever it has one: every call it makes returns.                        *)

DiskError == "OSError: cannot open file for writing"

\* line 418: save_json_result raises inside the try; nothing is written.
PersistWriteRaises ==
    /\ pc = "aggregate"
    /\ \E total_time \in ElapsedCentis :
          result_data' = ResultData(session_id, target_file, source_documents,
                                    verified_claims, total_time)
    /\ pc' = "except"
    /\ exc' = DiskError
    /\ UNCHANGED <<envVars, fnVars, files, session_id, target_file,
                   source_documents, claims, i, evidence_result, judgment_data,
                   verified_claims, ret, log, last>>

\* line 465: save_json_result raises inside the except clause; the
\* exception leaves verify_document, which returns nothing.
ErrorWriteRaises ==
    /\ pc = "except"
    /\ pc' = "raised"
    /\ exc' = DiskError
    /\ evidence_result' = <<>>
    /\ judgment_data' = PyNone
    /\ UNCHANGED <<envVars, fnVars, files, session_id, target_file,
                   source_documents, claims, i, verified_claims, result_data,
                   ret, log, last>>

NextDisk == Next \/ PersistWriteRaises \/ ErrorWriteRaises

\* Where a call of verify_document has ended: it has returned a path, or an
\* exception has left it.
RunEnded == {"persisted", "failed", "raised"}
Positions ==
    {"start", "load", "extract", "evidence", "judge", "cite", "aggregate",
     "except"} \cup RunEnded

\* The run moves on.  Every step of a run changes pc, and a run that has
\* not ended has a step to take, so fairness of this action is fairness of
\* the run's next step: a call that has been made returns.
Advance == pc \notin RunEnded /\ pc' \in Positions /\ pc' # pc

SpecDisk == Init /\ [][NextDisk]_vars /\ WF_pc(Advance)

-----------------------------------------------------------------------------
(* The viewer: view_table of main.py and table_viewer.py, over reports of   *)
(* up to MaxViewClaims claims with the four verdicts and one unknown one,   *)
(* rendered up to MaxViews times.  A rendering is what the viewer has       *)
(* printed (the rows of the table, the rows of the summary) and the         *)
(* result_data it was given, as the rendering has left it.                  *)

\* The most claims of a report that is viewed, and the most renderings.
MaxViewClaims == 3
MaxViews == 2

ViewVerdicts == {"SUPPORTED", "CONTRADICTED", "PARTIAL", "NOT_FOUND", "MAYBE"}

\* The j-th claim of a viewed report: odd claims under the first category,
\* even claims under the other, one citation each.
ViewClaim(j, verdict) ==
    AssembleClaim(MkClaim(j, IF j % 2 = 1 THEN FirstCategory ELSE "Security"),
                  Judgment(PyStr(verdict), PyInt(85)),
                  BuildCitations(Answers(PyDict(<< <<"citations",
                      PyList(<<Citation1>>)>> >>))).str).v

ViewReports ==
    UNION {{ResultData(PyStr("run-1"), "target.txt", <<"a.txt">>,
                       [j \in 1..n |-> ViewClaim(j, vs[j])], 250) :
               vs \in [1..n -> ViewVerdicts]} :
           n \in 0..MaxViewClaims}

\* A verdict shown as it is, with no label.
FormatStatusRaw(verdict_colors, verdict) == verdict

\* lines 10-15: self.verdict_colors
VerdictColors ==
    PyDict(<< <<"SUPPORTED", PyStr("<GREEN>Pass<RESET>")>>,
              <<"CONTRADICTED", PyStr("<RED>Fail<RESET>")>>,
              <<"PARTIAL", PyStr("<YELLOW>Partial<RESET>")>>,
              <<"NOT_FOUND", PyStr("<BLUE>Not Found<RESET>")>> >>)

\* lines 18-20: self.verdict_colors.get(verdict, verdict)
FormatStatus(verdict_colors, verdict) ==
    IF verdict.t = "str" THEN DictGet(verdict_colors, verdict.s, verdict)
    ELSE verdict

\* s.replace(old, ""), for the strings of the model: old stands at the
\* start of s or nowhere, and rest holds what can follow it.
RemovePrefix(s, old, rest) ==
    IF \E x \in rest : s = old \o x
    THEN CHOOSE x \in rest : s = old \o x
    ELSE s

\* s[:-len(old)] when s ends with old, for the strings of the model
RemoveSuffix(s, old, rest) ==
    IF \E x \in rest : s = x \o old
    THEN CHOOSE x \in rest : s = x \o old
    ELSE s

\* s.upper(), for the block ids of the model
StrUpper(s) ==
    IF \E n \in 1..99 : s = "block-" \o Format02d(n)
    THEN "BLOCK-" \o Format02d(CHOOSE n \in 1..99 : s = "block-" \o Format02d(n))
    ELSE s

TitleTexts == Categories \cup {"General"}
ClaimNumbers == {ToString(j) : j \in 1..9}
ClaimTexts == {"text of claim " \o n : n \in ClaimNumbers}

\* lines 37-60: extract_citations_summary, for citations of the model (the
\* document a.txt, at most two citations)
ExtractCitationsSummary(citations) ==
    IF citations.t # "list" \/ Len(citations.items) = 0 THEN "-"
    ELSE "a v1 p1"

\* lines 97-116: the row of one claim
ClaimRow(verdict_colors, claim) ==
    LET claim_details == DictGet(claim, "details", PyDict(<<>>))
        title == DictGet(claim, "title", PyStr("Unknown Claim")).s
    IN  [id |-> "  " \o RemovePrefix(DictGet(claim, "claim_id", PyStr("")).s,
                                     "claim-", ClaimNumbers),
         title |-> "|_ " \o RemoveSuffix(RemovePrefix(title, "Claim: ",
                                              {t \o "..." : t \in ClaimTexts}),
                                         "...", ClaimTexts),
         status |-> FormatStatus(verdict_colors,
                        DictGet(claim_details, "verdict", PyStr("NOT_FOUND"))),
         confidence |-> DictGet(claim_details, "confidence", PyInt(0)),
         dependencies |-> ExtractCitationsSummary(
                              DictGet(claim_details, "citations", PyList(<<>>)))]

\* lines 82-92: the header row of a block
BlockRow(block) ==
    [id |-> StrUpper(DictGet(block, "block_id", PyStr("")).s),
     title |-> RemovePrefix(DictGet(block, "title", PyStr("Unknown Block")).s,
                            "Block: ", TitleTexts),
     status |-> PyStr("-"), confidence |-> PyStr("-"), dependencies |-> "-"]

SeparatorRow ==
    [id |-> "--------", title |-> "-", status |-> PyStr("-"),
     confidence |-> PyStr("-"), dependencies |-> "-"]

RECURSIVE TableRows(_, _)
\* lines 81-120: the rows of the table, block after block, a separator
\* after every block but the last
TableRows(verdict_colors, blocks) ==
    IF Len(blocks) = 0 THEN <<>>
    ELSE LET claims_of == DictGet(blocks[1], "claims", PyList(<<>>)).items
         IN  <<BlockRow(blocks[1])>>
             \o [j \in 1..Len(claims_of) |-> ClaimRow(verdict_colors, claims_of[j])]
             \o (IF Len(blocks) > 1 THEN <<SeparatorRow>> ELSE <<>>)
             \o TableRows(verdict_colors, Tail(blocks))

\* lines 135-137: one claim is counted
CountVerdict(counts, verdict) ==
    [verdict_counts |->
         DictSet(counts.verdict_counts, verdict.s,
                 PyInt(DictGet(counts.verdict_counts, verdict.s, PyInt(0)).n + 1)),
     total_claims |-> counts.total_claims + 1]

\* lines 130-131
NoCounts ==
    [verdict_counts |->
         PyDict(<< <<"SUPPORTED", PyInt(0)>>, <<"CONTRADICTED", PyInt(0)>>,
                   <<"PARTIAL", PyInt(0)>>, <<"NOT_FOUND", PyInt(0)>> >>),
     total_claims |-> 0]

RECURSIVE CountClaims(_, _)
\* lines 133-137, over the claims of all blocks in order
CountClaims(counts, claims_of) ==
    IF Len(claims_of) = 0 THEN counts
    ELSE CountClaims(
             CountVerdict(counts,
                 DictGet(DictGet(claims_of[1], "details", PyDict(<<>>)),
                         "verdict", PyStr("NOT_FOUND"))),
             Tail(claims_of))

RECURSIVE ClaimsOfAllBlocks(_)
ClaimsOfAllBlocks(blocks) ==
    IF Len(blocks) = 0 THEN <<>>
    ELSE DictGet(blocks[1], "claims", PyList(<<>>)).items
             \o ClaimsOfAllBlocks(Tail(blocks))

\* lines 127-156: the rows of the summary; the pass rate in tenths of a
\* percent, as f"{pass_rate:.1f}" shows it
PrintSummaryStats(data) ==
    LET counts == CountClaims(NoCounts,
                      ClaimsOfAllBlocks(
                          DictGet(data, "blocks", PyList(<<>>)).items))
        shown(v) == DictGet(counts.verdict_counts, v, PyNone).n
    IN  [total |-> counts.total_claims,
         pass |-> shown("SUPPORTED"),
         fail |-> shown("CONTRADICTED"),
         partial |-> shown("PARTIAL"),
         not_found |-> shown("NOT_FOUND"),
         pass_rate |-> RoundDiv((shown("SUPPORTED") + shown("PARTIAL")) * 1000,
                                Max(counts.total_claims, 1))]

\* lines 63-125: display_verification_table
DisplayVerificationTable(verdict_colors, data) ==
    [error |-> "",
     table |-> TableRows(verdict_colors,
                         DictGet(data, "blocks", PyList(<<>>)).items),
     summary |-> PrintSummaryStats(data),
     result_data |-> data]

\* lines 176-190: load_and_display_results; main.py:131-133 for a file that
\* does not exist
LoadAndDisplayResults(store, json_file_path) ==
    IF ~HasFile(store, json_file_path)
    THEN [error |-> "File not found", table |-> <<>>,
          summary |-> PrintSummaryStats(PyDict(<<>>)), result_data |-> PyNone]
    ELSE LET loaded == LoadFile(store, json_file_path)
         IN  IF ~loaded.ok
             THEN [error |-> "Invalid JSON format", table |-> <<>>,
                   summary |-> PrintSummaryStats(PyDict(<<>>)),
                   result_data |-> PyNone]
             ELSE DisplayVerificationTable(VerdictColors, loaded.v)

InitView ==
    /\ target_dir = <<>> /\ source_dir = <<>>
    /\ \E report \in ViewReports :
          /\ files = SaveJsonResult({}, report, ResultPath("run-1"))
          /\ result_data = report
    /\ pc = "idle" /\ session_id = PyStr("run-1") /\ target_file = ""
    /\ source_documents = <<>> /\ claims = <<>> /\ i = 0
    /\ evidence_result = <<>> /\ judgment_data = PyNone
    /\ verified_claims = <<>>
    /\ exc = "" /\ ret = "" /\ log = <<>> /\ last = NoCall
    /\ fnIn \in {ResultPath("run-1"), ResultPath("run-2")}
    /\ fnOut = <<>>

\* main.py:117-136: view-table RESULT_FILE
ViewTable ==
    /\ Len(fnOut) < MaxViews
    /\ fnOut' = Append(fnOut, LoadAndDisplayResults(files, fnIn))
    /\ UNCHANGED <<envVars, runVars, fnIn>>

NextView == ViewTable

SpecView == InitView /\ [][NextView]_vars

-----------------------------------------------------------------------------
(* Reading a run's outcome *)

Verdicts == {"SUPPORTED", "CONTRADICTED", "PARTIAL", "NOT_FOUND"}

RECURSIVE ClaimsOfBlocks(_)
\* The claims of a report's blocks, block after block.
ClaimsOfBlocks(blocks) ==
    IF Len(blocks) = 0 THEN <<>>
    ELSE DictGet(blocks[1], "claims", PyList(<<>>)).items
             \o ClaimsOfBlocks(Tail(blocks))

\* The report as it is read back from the run's result file.
PersistedReport == LoadFile(files, ResultPath(session_id.s)).v
ReportClaims == ClaimsOfBlocks(DictGet(PersistedReport, "blocks", PyList(<<>>)).items)
Details(final_claim) == DictGet(final_claim, "details", PyDict(<<>>))

\* What the latest stage call returned, read as JSON.
LastReturned == JsonLoads(last.returned)

NonScalar(v) == v.t \in {"dict", "list"}

\* C1: in every run that reaches Persist, whatever Stage 3 returned, every
\* claim of the persisted report has details.verdict among the four verdicts
\* and details.confidence an integer from 0 to 100.
C1_PersistedVerdictsAndConfidencesInRange ==
    pc = "persisted" =>
        \A j \in 1..Len(ReportClaims) :
            /\ DictGet(Details(ReportClaims[j]), "verdict", PyNone)
                   \in {PyStr(v) : v \in Verdicts}
            /\ DictGet(Details(ReportClaims[j]), "confidence", PyNone).t = "int"
            /\ DictGet(Details(ReportClaims[j]), "confidence", PyNone).n \in 0..100

\* C2: when Stage 3 returns a judgment whose verdict is an object or a list,
\* the run does not end in Failed because of it: it goes on, and the claim
\* is assembled with verdict NOT_FOUND.
C2_NonScalarVerdictCoercedToNotFound ==
    /\ (/\ last.stage = "judge_claim"
        /\ LastReturned.ok
        /\ NonScalar(DictGet(LastReturned.v, "verdict", PyNone)))
           => pc \notin {"except", "failed"}
    /\ (/\ pc \in {"evidence", "aggregate"}
        /\ Len(verified_claims) > 0
        /\ NonScalar(DictGet(judgment_data, "verdict", PyNone)))
           => DictGet(verified_claims[Len(verified_claims)], "verdict", PyNone)
                  = PyStr("NOT_FOUND")

\* The reference rule of confidence coercion: the truncation of a number,
\* the truncation of the number a string writes, 0 for anything else.  A
\* value that has no integer truncation (an infinity, a NaN) is left open.
ReferenceConfidences(raw) ==
    IF raw.t \in {"int", "bool"} THEN {IntOfNumber(raw).v}
    ELSE IF raw.t = "float"
    THEN (IF raw.f.k = "fin" THEN {IntOfFloat(raw.f).v} ELSE Int)
    ELSE IF raw.t = "str" /\ FloatOfStr(raw.s).ok
    THEN (IF FloatOfStr(raw.s).f.k = "fin" THEN {IntOfFloat(FloatOfStr(raw.s).f).v}
          ELSE Int)
    ELSE {0}

\* C3: for every raw confidence Stage 3 can return, the claim is assembled
\* (nothing is raised) and its confidence is the integer the reference rule
\* gives: 85, "72", "abc" and {} give 85, 72, 0 and 0.
C3_ConfidenceCoercionTotal ==
    (fnOut.at = "assembled") =>
        /\ ~fnOut.claim.raised
        /\ DictGet(fnOut.claim.v, "confidence", PyNone).t = "int"
        /\ DictGet(fnOut.claim.v, "confidence", PyNone).n
               \in ReferenceConfidences(DictGet(fnOut.read.v, "confidence", PyNone))

\* The structured request of the judgment failed.
StructuredFailed == ~(fnIn.so.ok /\ DecisionJudgmentResult(fnIn.so.ans).ok)

\* The objects written in a text: its pieces that read as a JSON object.
EmbeddedObjects(text) ==
    {JsonLoads(SubSeq(text, a, b)).v :
        <<a, b>> \in {ab \in (1..Len(text)) \X (1..Len(text)) :
                        /\ ab[1] < ab[2]
                        /\ text[ab[1]].k = "{" /\ text[ab[2]].k = "}"
                        /\ JsonLoads(SubSeq(text, ab[1], ab[2])).ok}}

\* The canonical fallback judgment
IsCanonicalFallback(v) ==
    /\ v.t = "dict"
    /\ DictGet(v, "verdict", PyNone) = PyStr("NOT_FOUND")
    /\ DictGet(v, "confidence", PyNone) = PyInt(0)
    /\ DictGet(v, "rationale", PyNone).t = "str"
    /\ DictGet(v, "rationale", PyNone).s # ""
    /\ DictGet(v, "supporting_evidence", PyNone) = PyList(<<>>)
    /\ DictGet(v, "contradicting_evidence", PyNone) = PyList(<<>>)

\* C4: when the structured request fails, judge_claim makes exactly one
\* free-text request; when the text holds an object its result is that
\* object, parsed, and when no object can be recovered its result is the
\* canonical fallback judgment.
C4_JudgeTwoTierFallback ==
    (fnOut.at = "judged" /\ StructuredFailed) =>
        /\ ~fnOut.r.raised
        /\ fnOut.r.text_calls = 1
        /\ fnIn.to.ok =>
              /\ JsonLoads(fnOut.r.str).ok
              /\ IF EmbeddedObjects(fnIn.to.text) # {}
                 THEN JsonLoads(fnOut.r.str).v \in EmbeddedObjects(fnIn.to.text)
                 ELSE IsCanonicalFallback(JsonLoads(fnOut.r.str).v)

\* {"error": "<message>"} and nothing else
IsTaggedError(v) ==
    v.t = "dict" /\ Len(v.m) = 1 /\ DictGet(v, "error", PyNone).t = "str"

\* v is what the stage's output schema admits.
IsStageOutput(stage, v) ==
    CASE stage = "extract_claims" -> ClaimsExtractionResult(v).ok
      [] stage = "retrieve_evidence" -> EvidenceRetrievalResult(v).ok
      [] stage = "judge_claim" -> DecisionJudgmentResult(v).ok
      [] stage = "build_citations" -> CitationBuildingResult(v).ok
      [] OTHER -> FALSE

\* C5: no stage invoker lets a failure of the model call escape; what it
\* returns is valid stage output, the canonical fallback judgment, or a
\* tagged payload {error: string}.
C5_InvokersReturnOutputFallbackOrError ==
    /\ pc = "except" => exc # "stage invoker raised"
    /\ last # NoCall =>
          /\ LastReturned.ok
          /\ \/ IsStageOutput(last.stage, LastReturned.v)
             \/ last.stage = "judge_claim" /\ IsCanonicalFallback(LastReturned.v)
             \/ IsTaggedError(LastReturned.v)

\* Stage 1 returned its error payload, and no stage has been called since.
Stage1ReturnedError ==
    last.stage = "extract_claims" /\ IsErrorPayload(last.returned)

\* C6: when Stage 1 returns a tagged error payload the claim sequence is
\* empty, no call of Stages 2-4 is made, the run reaches Persist and not
\* Failed, and the persisted report has status "completed", no block and
\* claims_processed = 0.
C6_Stage1ErrorGivesEmptyReport ==
    /\ Stage1ReturnedError =>
          /\ claims = <<>>
          /\ pc \in {"aggregate", "persisted"}
          /\ pc = "persisted" =>
                /\ HasFile(files, ResultPath(session_id.s))
                /\ DictGet(PersistedReport, "status", PyNone) = PyStr("completed")
                /\ DictGet(PersistedReport, "blocks", PyNone) = PyList(<<>>)
                /\ DictGet(DictGet(PersistedReport, "performance", PyDict(<<>>)),
                           "claims_processed", PyNone) = PyInt(0)
    /\ claims = <<>> => Len(log) <= 1

\* C6 is reached: a persisted run whose Stage 1 returned the error payload.
C6_Witness == pc = "persisted" /\ Stage1ReturnedError

\* The exceptions of the confidence coercion (lines 301-309), the only ones
\* that can follow a Stage 4 call.
ConfidenceErrors ==
    {"OverflowError: cannot convert float infinity to integer",
     "ValueError: cannot convert float NaN to integer"}

\* The three calls made for claim k, as the call log ends with them.
CallsOfClaim(k) ==
    <<LogEntry("retrieve_evidence", k), LogEntry("judge_claim", k),
      LogEntry("build_citations", k)>>

C8_AssembledClaimHasVerdictAndConfidence ==
    (fnOut.at = "assembled" /\ ~fnOut.claim.raised) =>
        /\ Cardinality({j \in 1..Len(fnOut.claim.v.m) :
                           fnOut.claim.v.m[j][1] = "verdict"}) = 1
        /\ Cardinality({j \in 1..Len(fnOut.claim.v.m) :
                           fnOut.claim.v.m[j][1] = "confidence"}) = 1
        /\ DictGet(fnOut.claim.v, "confidence", PyNone).t = "int"
        /\ ~DictHas(fnOut.read.v, "verdict") =>
              DictGet(fnOut.claim.v, "verdict", PyNone) = PyStr("NOT_FOUND")
        /\ ~DictHas(fnOut.read.v, "confidence") =>
              DictGet(fnOut.claim.v, "confidence", PyNone) = PyInt(0)
        /\ IsTaggedError(fnOut.read.v) =>
              /\ DictGet(fnOut.claim.v, "verdict", PyNone) = PyStr("NOT_FOUND")
              /\ DictGet(fnOut.claim.v, "confidence", PyNone) = PyInt(0)

\* C8 is reached: a claim assembled from the error payload of judge_claim.
C8_Witness ==
    /\ fnOut.at = "assembled" /\ ~fnOut.claim.raised
    /\ IsTaggedError(fnOut.read.v)

RECURSIVE ExpectedCalls(_)
\* The calls of a run that has processed n claims: Stage 1, then Stages 2,
\* 3 and 4 for claim 1, and so on.
ExpectedCalls(n) ==
    IF n = 0 THEN <<LogEntry("extract_claims", 0)>>
    ELSE ExpectedCalls(n - 1) \o CallsOfClaim(n)

IsPrefix(a, b) == Len(a) <= Len(b) /\ SubSeq(b, 1, Len(a)) = a

\* C9: the stage calls of a run are, in this order, Stage 1 once, then for
\* each extracted claim in extraction order Stages 2, 3 and 4 once each (one
\* call at a time: each call returns before the next is made); a file is
\* written only when the run has ended, and the report only after the calls
\* for every claim.
C9_StagesInOrder ==
    /\ IsPrefix(log, ExpectedCalls(Len(claims)))
    /\ Len(verified_claims)
           = Cardinality({j \in 1..Len(log) : log[j].stage = "build_citations"})
             - (IF pc \in {"except", "failed"} /\ last.stage = "build_citations"
                THEN 1 ELSE 0)
    /\ pc \in {"aggregate", "persisted"} =>
          /\ log = ExpectedCalls(Len(claims))
          /\ Len(verified_claims) = Len(claims)
    /\ files # {} => pc \in {"persisted", "failed"}
    /\ pc = "persisted" => HasFile(files, ResultPath(session_id.s))

\* C9 is reached: a persisted run over the longest claim list.
C9_Witness == pc = "persisted" /\ Len(claims) = MaxClaims

\* The strings (keys and values) a persisted file holds.
StringsOf(data) ==
    {data[j].v.s : j \in {h \in 1..Len(data) :
                             data[h].k = "lit" /\ data[h].v.t = "str"}}

NoCallRepeated ==
    \A a, b \in 1..Len(log) : log[a] = log[b] => a = b

\* C11: a failure is caught only at the boundary of the run and nothing is
\* retried: from the moment an exception has been raised no further stage
\* is called (none for the claims still to come), the only step left is the
\* one to Failed, and no stage call is ever made twice.
C11_FailureEndsTheRun ==
    /\ [][pc = "except" => (pc' = "failed" /\ log' = log
                            /\ verified_claims' = verified_claims)]_vars
    /\ [][pc = "failed" => (pc' = "failed" /\ log' = log)]_vars
    /\ []NoCallRepeated

\* C11 is reached: a run that failed on a claim with a claim still to come.
C11_Witness ==
    /\ pc = "failed"
    /\ Len(log) > 1
    /\ Len(verified_claims) + 1 < Len(claims)

\* The category a claim counts under.
CategoryOf(claim) ==
    IF DictHas(claim, "category") THEN DictGet(claim, "category", PyNone).s
    ELSE "General"

RECURSIVE FirstSeen(_, _)
\* The categories of a claim sequence, each once, in order of first
\* appearance; seen holds those met so far.
FirstSeen(cs, seen) ==
    IF Len(cs) = 0 THEN seen
    ELSE FirstSeen(Tail(cs),
                   IF \E j \in 1..Len(seen) : seen[j] = CategoryOf(cs[1])
                   THEN seen ELSE Append(seen, CategoryOf(cs[1])))

TwoDigits == <<"01", "02", "03", "04", "05", "06", "07", "08", "09">>

ClaimIds(cs) == [j \in 1..Len(cs) |-> DictGet(cs[j], "claim_id", PyNone)]

\* C12: for every sequence of verified claims the grouping gives one block
\* per distinct category ('General' for a claim with none), in order of
\* first appearance; the i-th block has block_id "block-" and i on two
\* digits, so the ids are pairwise distinct; and the claims of a block are
\* the claims of its category in the order of the sequence.
C12_BlocksByCategoryInOrder ==
    fnOut # PyNone =>
        LET blocks == fnOut.items
            cats == FirstSeen(fnIn, <<>>)
        IN  /\ Len(blocks) = Len(cats)
            /\ \A b \in 1..Len(blocks) :
                  /\ DictGet(blocks[b], "title", PyNone)
                         = PyStr("Block: " \o cats[b])
                  /\ DictGet(blocks[b], "block_id", PyNone)
                         = PyStr("block-" \o TwoDigits[b])
                  /\ ClaimIds(DictGet(blocks[b], "claims", PyNone).items)
                         = ClaimIds(SelectSeq(fnIn,
                               LAMBDA c : CategoryOf(c) = cats[b]))
                  /\ \A j \in 1..Len(DictGet(blocks[b], "claims", PyNone).items) :
                        DictGet(DictGet(blocks[b], "claims", PyNone).items[j],
                                "status", PyNone) = PyStr("completed")
            /\ \A a, b \in 1..Len(blocks) :
                  DictGet(blocks[a], "block_id", PyNone)
                      = DictGet(blocks[b], "block_id", PyNone) => a = b

\* C12 is reached: three blocks from four claims, the first and the last of
\* one category, a claim with no category between them.
C12_Witness ==
    /\ fnOut # PyNone
    /\ Len(fnIn) = 4
    /\ Len(fnOut.items) = 3
    /\ CategoryOf(fnIn[1]) = CategoryOf(fnIn[4])
    /\ ~DictHas(fnIn[2], "category")
    /\ DictGet(fnOut.items[2], "title", PyNone) = PyStr("Block: General")

\* The performance record of the persisted report.
ReportPerformance == DictGet(PersistedReport, "performance", PyDict(<<>>))

\* C13: when Stage 1 yields no claim the run goes to Persist and nowhere
\* else (the step that persists is the one step enabled, the except clause
\* is not entered); the persisted report has zero blocks and
\* claims_processed = 0, and avg_time_per_claim, computed with the divisor
\* max(0, 1) = 1, is the total elapsed time.
C13_ZeroClaimsReport ==
    (Len(log) >= 1 /\ claims = <<>>) =>
        /\ pc \in {"aggregate", "persisted"}
        /\ Len(log) = 1
        /\ pc = "aggregate" => ENABLED PersistStep
        /\ pc = "persisted" =>
              /\ DictGet(PersistedReport, "blocks", PyNone) = PyList(<<>>)
              /\ DictGet(ReportPerformance, "claims_processed", PyNone) = PyInt(0)
              /\ DictGet(ReportPerformance, "avg_time_per_claim", PyNone)
                     = DictGet(ReportPerformance, "total_time_seconds", PyNone)
              /\ DictGet(ReportPerformance, "avg_time_per_claim", PyNone)
                     \in {PyFloat(Fin(1, t, 100)) : t \in ElapsedCentis}

\* C13 is reached: Stage 1 answered with an empty list of claims (no error
\* payload) and the report of a run of 2.5 seconds is persisted.
C13_Witness ==
    /\ pc = "persisted"
    /\ claims = <<>>
    /\ Len(log) = 1
    /\ ~IsErrorPayload(last.returned)
    /\ DictGet(ReportPerformance, "avg_time_per_claim", PyNone)
           = PyFloat(Fin(1, 250, 100))

\* C14: a run writes once: the results directory never holds more than one
\* file of the run, a persisted run has written its report and no error
\* record, a failed run its error record and no report; a failure after the
\* report was written adds no error record.
C14_OneWritePerRun ==
    /\ Cardinality(files) <= 1
    /\ pc = "persisted" =>
          /\ HasFile(files, ResultPath(session_id.s))
          /\ ~HasFile(files, ErrorPath(session_id.s))
    /\ pc = "failed" =>
          /\ HasFile(files, ErrorPath(session_id.s))
          /\ ~HasFile(files, ResultPath(session_id.s))

\* The runs made so far that have ended, oldest first.
EndedRuns ==
    IF pc \in {"persisted", "failed"} THEN Append(fnOut.past, EndedRun)
    ELSE fnOut.past

\* The runs made so far that have their session id, oldest first.
StartedRuns ==
    IF pc = "start" THEN fnOut.past ELSE Append(fnOut.past, EndedRun)

\* The latest of the ended runs that persisted a report under session id sid.
LatestPersisted(sid) ==
    LET ok == {r \in 1..Len(EndedRuns) :
                  EndedRuns[r].pc = "persisted" /\ EndedRuns[r].sid = sid}
    IN  CHOOSE r \in ok : \A q \in ok : q <= r

\* C15: after any sequence of runs, for every session id some run persisted
\* a report under, the results directory holds one file at
\* {results_dir}/{session_id}.json, its content is the report of the latest
\* of those runs, and every file of the directory is the report or the
\* error record of a session id: there are no versioned or suffixed copies.
C15_LastWriteWins ==
    /\ \A r \in 1..Len(EndedRuns) :
          EndedRuns[r].pc = "persisted" =>
              LET sid == EndedRuns[r].sid
                  at == {f \in files : f.path = ResultPath(sid.s)}
              IN  /\ Cardinality(at) = 1
                  /\ \A f \in at :
                        f.data = JsonDumps(EndedRuns[LatestPersisted(sid)].report)
    /\ \A f \in files :
          \E r \in 1..Len(EndedRuns) :
              f.path \in {ResultPath(EndedRuns[r].sid.s),
                          ErrorPath(EndedRuns[r].sid.s)}

\* C15 is reached: two runs persisted under the same session id, and the
\* report of the second is not the report of the first.
C15_Witness ==
    /\ pc = "persisted"
    /\ Len(fnOut.past) = 1
    /\ fnOut.past[1].pc = "persisted"
    /\ fnOut.past[1].sid = session_id
    /\ fnOut.past[1].report # result_data
    /\ files = {[path |-> ResultPath(session_id.s), data |-> JsonDumps(result_data)]}

NoExplicitId(arg) == arg = PyNone \/ arg = PyStr("")

\* C16: any two runs started with no explicit session id (None or empty)
\* have different session ids, hence different report filenames.
C16_AutoSessionIdsDiffer ==
    \A a, b \in 1..Len(StartedRuns) :
        (a # b /\ NoExplicitId(StartedRuns[a].arg)
               /\ NoExplicitId(StartedRuns[b].arg)) =>
            /\ StartedRuns[a].sid # StartedRuns[b].sid
            /\ ResultPath(StartedRuns[a].sid.s) # ResultPath(StartedRuns[b].sid.s)

\* C17: verify_document fails at its start whenever a document set is
\* empty: with no text file in the target directory, or none in the source
\* directory, no stage is called and the run ends in Failed.
C17_EmptyDocumentSetFails ==
    (target_dir = <<>> \/ source_dir = <<>>) =>
        /\ log = <<>>
        /\ pc \in {"start", "load", "except", "failed"}

\* The source or the target directory does not exist or holds no text file.
SetupIsWrong ==
    \/ ~fnIn.source_exists \/ ~fnIn.target_exists
    \/ source_dir = <<>> \/ target_dir = <<>>

\* C18: when the source or the target directory does not exist or holds no
\* text file, the verify command aborts before the pipeline starts:
\* verify_document is never called, no stage is called, and the results
\* directory holds neither a report nor an error record.
C18_SetupErrorAbortsBeforePipeline ==
    SetupIsWrong =>
        /\ fnOut.at \in {"command", "aborted"}
        /\ fnOut.at = "aborted" => fnOut.message # ""
        /\ pc = "idle"
        /\ log = <<>>
        /\ files = {}

\* C18 is reached: the command has aborted on a target directory that
\* exists and holds no text file, the source directory being in order.
C18_Witness ==
    /\ fnOut.at = "aborted"
    /\ fnIn.target_exists /\ target_dir = <<>>
    /\ fnIn.source_exists /\ source_dir # <<>>
    /\ fnOut.message = "No TXT files found in target directory"

\* The request made is the partitioned one: source text, cache point, then
\* the claim-specific text.
SentPartitioned ==
    /\ Len(fnOut.requests[1].messages) = 3
    /\ fnOut.requests[1].messages[2] = "cachePoint"

\* The request made is the single prompt.
SentSingle ==
    /\ fnOut.requests[1].messages = <<>>
    /\ fnOut.requests[1].prompt = "<user_prompt>"

\* One structured-output request was made, and what is returned is an
\* EvidenceRetrievalResult or the error payload, whatever the form.
OneRequestSameShape ==
    /\ Len(fnOut.requests) = 1
    /\ ~fnOut.r.raised
    /\ LET returned == JsonLoads(fnOut.r.str)
       IN  /\ returned.ok
           /\ \/ IsStageOutput("retrieve_evidence", returned.v)
              \/ IsTaggedError(returned.v)
           /\ IsStageOutput("retrieve_evidence", returned.v)
                 <=> (fnIn.so.ok /\ EvidenceRetrievalResult(fnIn.so.ans).ok)

\* C19 as stated: whenever the source text is longer than 1000 characters
\* the request is sent partitioned, and single when it is 1000 characters
\* or shorter; one structured-output request either way, same result shape.
C19_PartitionedAboveThreshold ==
    fnOut.at = "returned" =>
        /\ OneRequestSameShape
        /\ fnIn.source_len > 1000 => SentPartitioned
        /\ fnIn.source_len <= 1000 => SentSingle

\* C19, amended: the request is sent partitioned when caching is enabled
\* and the source text is longer than 1000 characters, and single when
\* caching is disabled or the text is 1000 characters or shorter; one
\* structured-output request either way, same result shape.
C19_PartitionedAboveThresholdWhenCaching ==
    fnOut.at = "returned" =>
        /\ OneRequestSameShape
        /\ (fnIn.enable_caching /\ fnIn.source_len > 1000) => SentPartitioned
        /\ (~fnIn.enable_caching \/ fnIn.source_len <= 1000) => SentSingle

\* C19 is reached: with caching enabled, a text of 1001 characters was sent
\* partitioned and the service answered with evidence.
C19_Witness ==
    /\ fnOut.at = "returned"
    /\ fnIn.enable_caching
    /\ fnIn.source_len = 1001
    /\ SentPartitioned
    /\ IsStageOutput("retrieve_evidence", JsonLoads(fnOut.r.str).v)

\* C20: the evidence handed to Decision Judgment for claim k is the value
\* Evidence Retrieval has just returned for claim k, and the evidence handed
\* to Citation Building for claim k is the value that was handed to Decision
\* Judgment for claim k: one value, of the same claim, not altered between
\* the two calls.
C20_EvidenceHandedOn ==
    /\ [][last'.stage = "judge_claim" /\ last' # last =>
              /\ last.stage = "retrieve_evidence"
              /\ last'.k = last.k
              /\ last'.evidence = last.returned]_vars
    /\ [][last'.stage = "build_citations" /\ last' # last =>
              /\ last.stage = "judge_claim"
              /\ last'.k = last.k
              /\ last'.evidence = last.evidence
              /\ last'.evidence = evidence_result]_vars

\* C20 is reached: the second claim's citation call was handed the error
\* payload of its evidence retrieval, the first claim's retrieval having
\* given evidence.
C20_Witness ==
    /\ last.stage = "build_citations"
    /\ last.k = 2
    /\ IsErrorPayload(last.evidence)
    /\ Len(verified_claims) >= 1
    /\ DictGet(verified_claims[1], "citations", PyNone) # PyList(<<>>)

\* The entry of details.sourceDocuments for one source file.
SourceEntry(filename) ==
    PyDict(<< <<"docId", PyStr(filename)>>, <<"version", PyInt(1)>>,
              <<"kind", PyStr("source_document")>> >>)

\* C21: the source documents are only read while the claims are processed:
\* every Evidence Retrieval call is handed the text of all source files
\* loaded at the start, every Citation Building call their file list, the
\* same for every claim, and the persisted report lists one entry (version
\* 1, kind source_document) per source file loaded, whatever the stages
\* returned.
C21_SourcesReadOnly ==
    /\ pc \notin {"start", "load", "except", "failed"} =>
          source_documents = source_dir
    /\ last.stage = "retrieve_evidence" =>
          /\ Len(last.sources) = Len(source_dir)
          /\ \A j \in 1..Len(source_dir) :
                last.sources[j]
                    = "=== " \o source_dir[j] \o " ===\n<content of "
                          \o source_dir[j] \o ">"
    /\ last.stage = "build_citations" =>
          JsonLoads(last.sources).v
              = PyDict(<< <<"source_files",
                            PyList([j \in 1..Len(source_dir) |->
                                       PyStr(source_dir[j])])>> >>)
    /\ pc = "persisted" =>
          DictGet(DictGet(PersistedReport, "details", PyNone),
                  "sourceDocuments", PyNone)
              = PyList([j \in 1..Len(source_dir) |-> SourceEntry(source_dir[j])])

\* C21 is reached: a report of two claims over two source files is
\* persisted, the second claim's Stage 2 having returned the error payload.
C21_Witness ==
    /\ pc = "persisted"
    /\ Len(source_dir) = 2
    /\ Len(verified_claims) = 2
    /\ last.stage = "build_citations" /\ last.k = 2
    /\ IsErrorPayload(last.evidence)

\* The label the table is to show for a verdict of the four.
LabelOf(verdict) ==
    CASE verdict = "SUPPORTED" -> "<GREEN>Pass<RESET>"
      [] verdict = "CONTRADICTED" -> "<RED>Fail<RESET>"
      [] verdict = "PARTIAL" -> "<YELLOW>Partial<RESET>"
      [] verdict = "NOT_FOUND" -> "<BLUE>Not Found<RESET>"

\* The rows of a rendering that show claims, in the order of the table.
ClaimRowsOf(rendering) ==
    SelectSeq(rendering.table,
              LAMBDA row : row.id \in {"  " \o n : n \in ClaimNumbers})

\* The verdicts of the claims of a report, block after block.
VerdictsOfReport(report) ==
    LET cs == ClaimsOfAllBlocks(DictGet(report, "blocks", PyList(<<>>)).items)
    IN  [j \in 1..Len(cs) |->
            DictGet(DictGet(cs[j], "details", PyDict(<<>>)), "verdict", PyNone)]

BlockSizes(report) ==
    LET blocks == DictGet(report, "blocks", PyList(<<>>)).items
    IN  [b \in 1..Len(blocks) |->
            Len(DictGet(blocks[b], "claims", PyList(<<>>)).items)]

\* The claims of a report per verdict, counted as the viewer counts them.
VerdictCountsOf(report) ==
    CountClaims(NoCounts,
                ClaimsOfAllBlocks(DictGet(report, "blocks", PyList(<<>>)).items))

\* C23: the report a run has assembled, written by save_json_result and
\* read back as the viewer reads it, has the same number of blocks, the same
\* number of claims in every block and the same number of claims per verdict.
C23_RoundTripKeepsCounts ==
    pc = "persisted" =>
       LET back == LoadFile(files, ResultPath(session_id.s))
       IN  /\ back.ok
           /\ BlockSizes(back.v) = BlockSizes(result_data)
           /\ VerdictCountsOf(back.v) = VerdictCountsOf(result_data)

C23_Witness ==
    /\ pc = "persisted"
    /\ Len(BlockSizes(result_data)) = 2
    /\ VerdictCountsOf(PersistedReport).total_claims = 2
    /\ DictGet(VerdictCountsOf(PersistedReport).verdict_counts, "SUPPORTED", PyInt(0)).n = 1

\* C24: verify_document returns the path of the report exactly when the run
\* has written its report (Persist) and the path of the error record
\* exactly when the run has ended in Failed.
C24_PathTellsOutcome ==
    ret # "" =>
       /\ ret \in {ResultPath(session_id.s), ErrorPath(session_id.s)}
       /\ ret = ResultPath(session_id.s)
             <=> HasFile(files, ResultPath(session_id.s))
       /\ ret = ErrorPath(session_id.s) <=> pc = "failed"

RECURSIVE SumOf(_)
SumOf(ns) == IF Len(ns) = 0 THEN 0 ELSE ns[1] + SumOf(Tail(ns))

\* The places, in a sequence of reported claims, of claims with the id and
\* the text of the Stage 1 claim c.
PlacesHolding(reported, c) ==
    {k \in 1..Len(reported) :
        /\ DictGet(reported[k], "claim_id", PyNone) = DictGet(c, "claim_id", PyNone)
        /\ DictGet(reported[k], "description", PyNone) = DictGet(c, "claim_text", PyNone)}

\* The blocks that hold such a claim.
BlocksHolding(blocks, c) ==
    {b \in 1..Len(blocks) :
        PlacesHolding(DictGet(blocks[b], "claims", PyList(<<>>)).items, c) # {}}

\* C25: in a persisted report every claim Stage 1 returned stands in exactly
\* one block and there exactly once, no block is empty, and
\* performance.claims_processed is the number of claims Stage 1 returned and
\* the number of claims of all blocks together.
C25_ClaimsConserved ==
    pc = "persisted" =>
       LET report == PersistedReport
           blocks == DictGet(report, "blocks", PyList(<<>>)).items
           reported == ClaimsOfBlocks(blocks)
           sizes == [b \in 1..Len(blocks) |->
                        Len(DictGet(blocks[b], "claims", PyList(<<>>)).items)]
           processed == DictGet(DictGet(report, "performance", PyDict(<<>>)),
                                "claims_processed", PyNone)
       IN  /\ \A j \in 1..Len(claims) :
                 /\ Cardinality(BlocksHolding(blocks, claims[j])) = 1
                 /\ Cardinality(PlacesHolding(reported, claims[j])) = 1
           /\ \A b \in 1..Len(sizes) : sizes[b] >= 1
           /\ processed = PyInt(Len(claims))
           /\ SumOf(sizes) = Len(claims)

C25_Witness ==
    /\ pc = "persisted"
    /\ Len(claims) = 2
    /\ BlockSizes(PersistedReport) = <<2>>

\* C26: when Stage 3 has answered on the free-text path, the string
\* judge_claim returned parses into a judgment object and the run does not
\* enter the except clause on reading it.
C26_FreeTextAlwaysParses ==
    (last.stage = "judge_claim" /\ last.text_calls >= 1) =>
       /\ JsonLoads(last.returned).ok
       /\ JsonLoads(last.returned).v.t = "dict"
       /\ pc # "except"

Terminal == pc \in {"persisted", "failed"}

\* C27: a run whose every call returns, normally or by raising, reaches
\* Persist or Failed and has then returned the path of a file it has
\* written; from then on no stage is called and no file is written.
C27_RunTerminates ==
    /\ <>Terminal
    /\ [](Terminal => (ret # "" /\ HasFile(files, ret)))
    /\ [][Terminal => UNCHANGED <<files, log, pc>>]_vars

\* C28: a run that ends in Failed has changed nothing in the results
\* directory but its error record: of a directory that was empty when the
\* run began, every file is then {session_id}_error.json.
C28_FailedRunWritesErrorOnly ==
    pc = "failed" => \A f \in files : f.path = ErrorPath(session_id.s)

\* C29: in every summary the viewer shows, the counts of Pass, Fail, Partial
\* and Not Found add up to Total Claims, and the pass rate is (SUPPORTED +
\* PARTIAL) / max(Total Claims, 1) as a percentage, 0 for no claims.
C29_SummaryConsistent ==
    \A a \in 1..Len(fnOut) :
       fnOut[a].error = "" =>
          LET shown == fnOut[a].summary
          IN  /\ shown.pass + shown.fail + shown.partial + shown.not_found
                    = shown.total
              /\ shown.pass_rate
                    = RoundDiv((shown.pass + shown.partial) * 1000,
                               Max(shown.total, 1))
              /\ shown.total = 0 => shown.pass_rate = 0
=============================================================================
